---- MODULE Spec2Model ----
(***************************************************************************)
(* A model of terraform-provider-lakefs: the provider's Configure, the     *)
(* HTTP client wrapper (APIClient.Request, PostRaw, APIError, IsNotFound)  *)
(* and the Create/Read/Update/Delete/ImportState handlers of its resources *)
(* and data sources, run against a LakeFS server.                          *)
(*                                                                         *)
(* A Go string is a sequence of tokens (each token a piece of text that    *)
(* the code never looks inside); fmt.Sprintf is concatenation, "" is <<>>. *)
(***************************************************************************)
EXTENDS Integers, Sequences, FiniteSets, TLC

VARIABLES
    config,        \* the provider block: endpoint, access_key_id, secret_access_key, skip_ssl_verify
    environ,       \* the process environment: LAKEFS_ENDPOINT, LAKEFS_ACCESS_KEY_ID, LAKEFS_SECRET_ACCESS_KEY
    configured,    \* whether LakeFSProvider.Configure has run
    providerData,  \* resp.ResourceData / resp.DataSourceData: the *LakeFSClient, or NoClient
    providerDiags, \* the diagnostics of Configure
    server,        \* the LakeFS server: repositories, branches, tags, branch protection rules
    block,         \* the resource or data source block this run manages
    tfstate,       \* the Terraform state of the managed block, or NoState
    created,       \* the request the Create that made the managed resource sent, or NoRequest
    input,         \* a call of the client on its own: the response it meets and the result it fills
    last           \* the last handler call: its inputs, the requests it sent, the response, its diagnostics

vars == <<config, environ, configured, providerData, providerDiags, server, block, tfstate, created, input, last>>

------------------------------------------------------------------------------
(* Strings                                                                   *)

\* strings.Contains
Contains(s, sub) ==
    \E i \in 1..(Len(s) - Len(sub) + 1) : SubSeq(s, i, i + Len(sub) - 1) = sub

\* strings.TrimSuffix
TrimSuffix(s, suffix) ==
    IF Len(s) >= Len(suffix) /\ SubSeq(s, Len(s) - Len(suffix) + 1, Len(s)) = suffix
    THEN SubSeq(s, 1, Len(s) - Len(suffix))
    ELSE s

\* the %d verb of fmt
Itoa(n) == <<ToString(n)>>

\* the position of the first occurrence of the one-token separator, 0 when there is none
RECURSIVE IndexFrom(_, _, _)
IndexFrom(s, sep, i) ==
    IF i > Len(s) THEN 0
    ELSE IF s[i] = sep THEN i
    ELSE IndexFrom(s, sep, i + 1)

\* Variant of the split: at every separator, as strings.Split cuts; the parts
\* after the second are left out.
SplitEvery(s, sep) ==
    LET i == IndexFrom(s, sep, 1)
        j == IndexFrom(s, sep, i + 1)
    IN IF i = 0 THEN <<s>>
       ELSE IF j = 0 THEN <<SubSeq(s, 1, i - 1), SubSeq(s, i + 1, Len(s))>>
       ELSE <<SubSeq(s, 1, i - 1), SubSeq(s, i + 1, j - 1), SubSeq(s, j + 1, Len(s))>>

\* strings.SplitN(s, sep, 2)
SplitN2(s, sep) ==
    LET i == IndexFrom(s, sep, 1) IN
    IF i = 0 THEN <<s>>
    ELSE <<SubSeq(s, 1, i - 1), SubSeq(s, i + 1, Len(s))>>

------------------------------------------------------------------------------
(* JSON response bodies                                                      *)

\* A line feed inside a string, and the two characters encoding/json reads it from.
LF == "<LF>"
RECURSIVE JSONEscape(_)
JSONEscape(s) ==
    IF s = <<>> THEN <<>>
    ELSE (IF Head(s) = LF THEN <<"\\", "n">> ELSE <<Head(s)>>) \o JSONEscape(Tail(s))

NoEntity == [type |-> "none"]
Absent == [t |-> "absent", s |-> <<>>, n |-> 0]
JString(s) == [t |-> "string", s |-> s, n |-> 0]
JNumber(n) == [t |-> "number", s |-> <<>>, n |-> n]
\* a JSON value of a type the Go field cannot take (a number for a string, a string for an int)
JMistyped(s) == [t |-> "other", s |-> s, n |-> 0]

EmptyBody == [form |-> "empty", text |-> <<>>, message |-> Absent, code |-> Absent, entity |-> NoEntity]
TextBody(t) == [EmptyBody EXCEPT !.form = "text", !.text = t]
NullBody == [EmptyBody EXCEPT !.form = "null"]
ArrayBody(e) == [EmptyBody EXCEPT !.form = "array", !.entity = e]
ErrorObject(m, c) == [EmptyBody EXCEPT !.form = "object", !.message = m, !.code = c]
EntityObject(e) == [EmptyBody EXCEPT !.form = "object", !.entity = e]

RECURSIVE RawRules(_)
RawRules(rules) ==
    IF rules = <<>> THEN <<>>
    ELSE <<"{\"pattern\":\"">> \o JSONEscape(Head(rules)) \o <<"\"}">> \o RawRules(Tail(rules))

RawField(name, f) ==
    CASE f.t = "absent" -> <<>>
      [] f.t = "string" -> <<name, "\"">> \o JSONEscape(f.s) \o <<"\"">>
      [] f.t = "number" -> <<name>> \o Itoa(f.n)
      [] OTHER          -> <<name>> \o f.s

\* string(respBody): the bytes of the body as the server wrote them
Raw(body) ==
    CASE body.form = "empty"  -> <<>>
      [] body.form = "text"   -> body.text
      [] body.form = "null"   -> <<"null">>
      [] body.form = "array"  -> <<"[">> \o RawRules(body.entity.rules) \o <<"]">>
      [] body.form = "object" ->
            <<"{">> \o RawField("\"message\":", body.message)
                    \o RawField("\"status_code\":", body.code)
                    \o (IF body.entity.type = "none" THEN <<>> ELSE <<"\"id\":\"">> \o body.entity.id \o <<"\"">>)
                    \o <<"}">>

------------------------------------------------------------------------------
(* Errors                                                                    *)

NilError == [kind |-> "nil", Message |-> <<>>, Code |-> 0, text |-> <<>>]
\* &APIError{Message, Code}
APIErrorOf(m, c) == [kind |-> "APIError", Message |-> m, Code |-> c, text |-> <<>>]
\* fmt.Errorf
Errorf(t) == [kind |-> "errorString", Message |-> <<>>, Code |-> 0, text |-> t]

\* json.Unmarshal(respBody, &apiErr): Message from "message", Code from "status_code"
UnmarshalAPIError(body) ==
    CASE body.form = "null" -> [ok |-> TRUE, Message |-> <<>>, Code |-> 0]
      [] body.form = "object" ->
            IF body.message.t = "other" \/ body.code.t = "other"
            THEN [ok |-> FALSE, Message |-> <<>>, Code |-> 0]
            ELSE [ok |-> TRUE, Message |-> body.message.s, Code |-> body.code.n]
      [] OTHER -> [ok |-> FALSE, Message |-> <<>>, Code |-> 0]

\* (e *APIError) Error() and the text of a fmt.Errorf error
ErrorText(e) ==
    IF e.kind = "APIError"
    THEN IF e.Code # 0
         THEN <<"LakeFS API error (", "status ">> \o Itoa(e.Code) \o <<"): ">> \o e.Message
         ELSE <<"LakeFS API error: ">> \o e.Message
    ELSE e.text

StatusNotFound == 404

\* IsNotFound
IsNotFound(err) ==
    IF err.kind = "APIError" THEN err.Code = StatusNotFound
    ELSE IF err.kind # "nil" THEN Contains(ErrorText(err), <<"status ">> \o Itoa(StatusNotFound))
    ELSE FALSE

------------------------------------------------------------------------------
(* The LakeFS server the provider talks to                                   *)

\* The names the bounded model uses.
RepoName == <<"repo1">>
MainBranch == <<"main">>
BranchName == <<"dev">>
TagName == <<"v1.0.0">>
Commit0 == <<"c0">>
Namespace == <<"s3://lakefs-data/repo1">>
RuleMain == <<"main">>
RuleRelease == <<"release-*">>

\* fmt.Sprintf of the request paths
RepositoriesPath == <<"/repositories">>
RepositoryPath(id) == <<"/repositories", "/">> \o id
BranchesPath(repo) == <<"/repositories", "/">> \o repo \o <<"/branches">>
BranchPath(repo, name) == <<"/repositories", "/">> \o repo \o <<"/branches", "/">> \o name
TagsPath(repo) == <<"/repositories", "/">> \o repo \o <<"/tags">>
TagPath(repo, name) == <<"/repositories", "/">> \o repo \o <<"/tags", "/">> \o name
BranchProtectionPath(repo) == <<"/repositories", "/">> \o repo \o <<"/settings/branch_protection">>
CommitPath(repo, id) == <<"/repositories", "/">> \o repo \o <<"/commits", "/">> \o id
UserPath == <<"/user">>

\* The JSON shapes of the API's answers: RepositoryResponse, BranchResponse,
\* TagResponse (a ref: id and commit_id), CommitResponse, CurrentUserResponse
\* and BranchProtectionRulesResponse; a missing field reads as Go's zero value.
RepositoryEntity(id, ns, branch, ro) ==
    [type |-> "repository", id |-> id, storage_namespace |-> ns, storage_id |-> <<>>,
     default_branch |-> branch, creation_date |-> 1700000000, read_only |-> ro]
RefEntity(id, commit) == [type |-> "ref", id |-> id, commit_id |-> commit]
CommitEntity(id) == [type |-> "commit", id |-> id, committer |-> <<"admin">>, creation_date |-> 1700000000]
UserEntity == [type |-> "user", id |-> <<"admin">>, creation_date |-> 1700000000]
RulesEntity(rules) == [type |-> "rules", rules |-> rules]

EmptyServer ==
    \* repo: the repository RepoName, when it exists
    [repo |-> [exists |-> FALSE, storage_namespace |-> <<>>, default_branch |-> <<>>, read_only |-> FALSE],
     branches |-> {},         \* its branches: [name, commit_id]
     tags |-> {},             \* its tags: [id, commit_id]
     rules |-> <<>>]          \* its branch protection rules, a list of patterns

\* A server holding RepoName with its default branch, as the acceptance tests'
\* configurations create it before a branch, a tag, rules or a data source.
FixtureServer ==
    [repo |-> [exists |-> TRUE, storage_namespace |-> Namespace, default_branch |-> MainBranch, read_only |-> FALSE],
     branches |-> {[name |-> MainBranch, commit_id |-> Commit0]},
     tags |-> {},
     rules |-> <<>>]

\* The credentials the server accepts (scripts/setup-test-lakefs.sh writes them).
ValidKeys == {[user |-> <<"AKIA-block">>, pass |-> <<"secret-block">>],
              [user |-> <<"AKIA-env">>, pass |-> <<"secret-env">>]}

NotFoundBody == ErrorObject(JString(<<"not found">>), Absent)
ConflictBody == ErrorObject(JString(<<"already exists">>), Absent)
UnauthorizedBody == ErrorObject(JString(<<"error authenticating request">>), Absent)

Answer(srv, status, body) == [server |-> srv, status |-> status, body |-> body]

HasRef(srv, ref) ==
    \/ \E b \in srv.branches : b.name = ref
    \/ \E t \in srv.tags : t.id = ref
    \/ ref = Commit0
CommitOf(srv, ref) ==
    IF \E b \in srv.branches : b.name = ref THEN (CHOOSE b \in srv.branches : b.name = ref).commit_id
    ELSE IF \E t \in srv.tags : t.id = ref THEN (CHOOSE t \in srv.tags : t.id = ref).commit_id
    ELSE ref

ServeRepositories(srv, req) ==
    IF req.method = "POST" /\ req.body.form = "object" /\ req.body.v.type = "RepositoryCreateRequest"
    THEN IF srv.repo.exists \/ req.body.v.name # RepoName
         THEN Answer(srv, 409, ConflictBody)
         ELSE LET b == IF req.body.v.default_branch = <<>> THEN MainBranch ELSE req.body.v.default_branch
                  made == [exists |-> TRUE, storage_namespace |-> req.body.v.storage_namespace,
                           default_branch |-> b, read_only |-> req.body.v.read_only]
              IN Answer([srv EXCEPT !.repo = made, !.branches = {[name |-> b, commit_id |-> Commit0]}],
                        201, EntityObject(RepositoryEntity(RepoName, made.storage_namespace, b, made.read_only)))
    ELSE Answer(srv, 405, ErrorObject(JString(<<"method not allowed">>), Absent))

ServeRepository(srv, req) ==
    IF ~srv.repo.exists THEN Answer(srv, 404, NotFoundBody)
    ELSE IF req.method = "GET"
    THEN Answer(srv, 200, EntityObject(RepositoryEntity(RepoName, srv.repo.storage_namespace,
                                                        srv.repo.default_branch, srv.repo.read_only)))
    ELSE IF req.method = "DELETE" THEN Answer(EmptyServer, 204, EmptyBody)
    ELSE Answer(srv, 405, ErrorObject(JString(<<"method not allowed">>), Absent))

ServeBranches(srv, req) ==
    IF ~srv.repo.exists THEN Answer(srv, 404, NotFoundBody)
    ELSE IF req.method = "POST" /\ req.body.form = "object" /\ req.body.v.type = "BranchCreateRequest"
    THEN IF ~HasRef(srv, req.body.v.source) THEN Answer(srv, 404, NotFoundBody)
         ELSE IF \E b \in srv.branches : b.name = req.body.v.name THEN Answer(srv, 409, ConflictBody)
         ELSE LET c == CommitOf(srv, req.body.v.source)
              IN Answer([srv EXCEPT !.branches = @ \cup {[name |-> req.body.v.name, commit_id |-> c]}],
                        201, TextBody(c))
    ELSE Answer(srv, 405, ErrorObject(JString(<<"method not allowed">>), Absent))

ServeBranch(srv, req, name) ==
    IF ~srv.repo.exists \/ ~\E b \in srv.branches : b.name = name THEN Answer(srv, 404, NotFoundBody)
    ELSE IF req.method = "GET"
    THEN Answer(srv, 200, EntityObject(RefEntity(name, CommitOf(srv, name))))
    ELSE IF req.method = "DELETE"
    THEN Answer([srv EXCEPT !.branches = {b \in @ : b.name # name}], 204, EmptyBody)
    ELSE Answer(srv, 405, ErrorObject(JString(<<"method not allowed">>), Absent))

ServeTags(srv, req) ==
    IF ~srv.repo.exists THEN Answer(srv, 404, NotFoundBody)
    ELSE IF req.method = "POST" /\ req.body.form = "object" /\ req.body.v.type = "TagCreateRequest"
    THEN IF ~HasRef(srv, req.body.v.ref) THEN Answer(srv, 404, NotFoundBody)
         ELSE IF \E t \in srv.tags : t.id = req.body.v.id THEN Answer(srv, 409, ConflictBody)
         ELSE LET c == CommitOf(srv, req.body.v.ref)
              IN Answer([srv EXCEPT !.tags = @ \cup {[id |-> req.body.v.id, commit_id |-> c]}],
                        201, EntityObject(RefEntity(req.body.v.id, c)))
    ELSE Answer(srv, 405, ErrorObject(JString(<<"method not allowed">>), Absent))

ServeTag(srv, req, name) ==
    IF ~srv.repo.exists \/ ~\E t \in srv.tags : t.id = name THEN Answer(srv, 404, NotFoundBody)
    ELSE IF req.method = "GET"
    THEN Answer(srv, 200, EntityObject(RefEntity(name, CommitOf(srv, name))))
    ELSE IF req.method = "DELETE"
    THEN Answer([srv EXCEPT !.tags = {t \in @ : t.id # name}], 204, EmptyBody)
    ELSE Answer(srv, 405, ErrorObject(JString(<<"method not allowed">>), Absent))

ServeBranchProtection(srv, req) ==
    IF ~srv.repo.exists THEN Answer(srv, 404, NotFoundBody)
    ELSE IF req.method = "GET" THEN Answer(srv, 200, ArrayBody(RulesEntity(srv.rules)))
    ELSE IF req.method = "PUT" /\ req.body.form \in {"array", "null"}
    THEN Answer([srv EXCEPT !.rules = req.body.v.rules], 204, EmptyBody)
    ELSE Answer(srv, 400, ErrorObject(JString(<<"bad request">>), Absent))

ServeCommit(srv, req, id) ==
    IF srv.repo.exists /\ req.method = "GET" /\ id = Commit0
    THEN Answer(srv, 200, EntityObject(CommitEntity(id)))
    ELSE Answer(srv, 404, NotFoundBody)

\* The server's answer to a request, and the server afterwards.
Serve(srv, req) ==
    LET p == req.path IN
    IF ~req.hasAuth \/ [user |-> req.user, pass |-> req.pass] \notin ValidKeys
    THEN Answer(srv, 401, UnauthorizedBody)
    ELSE CASE p = RepositoriesPath -> ServeRepositories(srv, req)
           [] p = RepositoryPath(RepoName) -> ServeRepository(srv, req)
           [] p = BranchesPath(RepoName) -> ServeBranches(srv, req)
           [] p = BranchPath(RepoName, MainBranch) -> ServeBranch(srv, req, MainBranch)
           [] p = BranchPath(RepoName, BranchName) -> ServeBranch(srv, req, BranchName)
           [] p = TagsPath(RepoName) -> ServeTags(srv, req)
           [] p = TagPath(RepoName, TagName) -> ServeTag(srv, req, TagName)
           [] p = BranchProtectionPath(RepoName) -> ServeBranchProtection(srv, req)
           [] p = CommitPath(RepoName, Commit0) -> ServeCommit(srv, req, Commit0)
           [] p = UserPath /\ req.method = "GET" -> Answer(srv, 200, EntityObject(UserEntity))
           [] OTHER -> Answer(srv, 404, NotFoundBody)

------------------------------------------------------------------------------
(* The HTTP client wrapper                                                   *)

NoClient == [set |-> FALSE, Endpoint |-> <<>>, AccessKeyID |-> <<>>, SecretAccessKey |-> <<>>, SkipSSLVerify |-> FALSE]

\* Variant of NewAPIClient: the access key ID stored as the password too.
NewAPIClientSameKey(cfg) ==
    [BaseURL |-> TrimSuffix(cfg.Endpoint, <<"/">>),
     InsecureSkipVerify |-> cfg.SkipSSLVerify,
     Username |-> cfg.AccessKeyID,
     Password |-> cfg.AccessKeyID]

\* NewAPIClient
NewAPIClient(cfg) ==
    [BaseURL |-> TrimSuffix(cfg.Endpoint, <<"/">>),
     InsecureSkipVerify |-> cfg.SkipSSLVerify,
     Username |-> cfg.AccessKeyID,
     Password |-> cfg.SecretAccessKey]

\* The request bodies json.Marshal writes.
NoBody == [form |-> "none", v |-> [type |-> "none"]]
ObjectBody(v) == [form |-> "object", v |-> v]
\* a []BranchProtectionRule: a nil slice marshals to null, any other to an array
RulesBody(isNil, rules) == [form |-> IF isNil THEN "null" ELSE "array", v |-> [type |-> "rules", rules |-> rules]]

\* http.NewRequestWithContext, req.SetBasicAuth, and the client's TLS configuration
NewRequest(c, method, path, body) ==
    [method |-> method, url |-> c.BaseURL \o path, path |-> path, body |-> body,
     hasAuth |-> TRUE, user |-> c.Username, pass |-> c.Password,
     insecure |-> c.InsecureSkipVerify]

\* What may happen to one request: the server answers it; something between the
\* provider and the server (or the server itself, failing) answers with an error
\* status; or the round trip fails, before or after the server acted on it.
Served == [kind |-> "served", status |-> 0, body |-> EmptyBody, processed |-> TRUE]
Answered(status, body) == [kind |-> "answered", status |-> status, body |-> body, processed |-> FALSE]
Lost(processed) == [kind |-> "lost", status |-> 0, body |-> EmptyBody, processed |-> processed]

\* Variant of the round trip: an error status is answered after the server has
\* acted on the request.
DoActingBeforeError(srv, req, fate) ==
    [req |-> req,
     failed |-> fate.kind = "lost",
     answer |-> CASE fate.kind = "served"   -> Serve(srv, req)
                  [] fate.kind = "answered" -> Answer(Serve(srv, req).server, fate.status, fate.body)
                  [] fate.processed         -> Answer(Serve(srv, req).server, 0, EmptyBody)
                  [] OTHER                  -> Answer(srv, 0, EmptyBody)]

\* c.HTTPClient.Do(req) and io.ReadAll(resp.Body): the request, whether the round
\* trip failed, the response read, and the server afterwards
Do(srv, req, fate) ==
    [req |-> req,
     failed |-> fate.kind = "lost",
     answer |-> CASE fate.kind = "served"   -> Serve(srv, req)
                  [] fate.kind = "answered" -> Answer(srv, fate.status, fate.body)
                  [] fate.processed         -> Answer(Serve(srv, req).server, 0, EmptyBody)
                  [] OTHER                  -> Answer(srv, 0, EmptyBody)]

\* The zero values of the result types, and no result (nil).
NoResult == [type |-> "nil"]
ZeroRepository ==
    [type |-> "repository", id |-> <<>>, storage_namespace |-> <<>>, storage_id |-> <<>>,
     default_branch |-> <<>>, creation_date |-> 0, read_only |-> FALSE]
ZeroRef == [type |-> "ref", id |-> <<>>, commit_id |-> <<>>]
ZeroCommit == [type |-> "commit", id |-> <<>>, committer |-> <<>>, creation_date |-> 0]
ZeroUser == [type |-> "user", id |-> <<>>, creation_date |-> 0]
ZeroRules == [type |-> "rules", rules |-> <<>>]

\* json.Unmarshal(respBody, result): null leaves the value alone, an object fills a
\* struct from the fields it knows, an array fills a slice, anything else is an error
Unmarshal(body, result) ==
    CASE body.form = "null" -> [ok |-> TRUE, value |-> result]
      [] body.form = "object" ->
            IF result.type = "rules" THEN [ok |-> FALSE, value |-> result]
            ELSE IF body.entity.type = result.type THEN [ok |-> TRUE, value |-> body.entity]
            ELSE [ok |-> TRUE, value |-> result]
      [] body.form = "array" ->
            IF result.type = "rules" THEN [ok |-> TRUE, value |-> body.entity]
            ELSE [ok |-> FALSE, value |-> result]
      [] OTHER -> [ok |-> FALSE, value |-> result]

\* Variant of the status check: only 4xx and 5xx taken for errors.
IsErrorStatusFrom400(status) == status >= 400

\* resp.StatusCode < 200 || resp.StatusCode >= 300
IsErrorStatus(status) == status < 200 \/ status >= 300

\* Variant of StatusError: the raw body left out of the error.
StatusErrorWithoutBody(status, body) ==
    LET apiErr == UnmarshalAPIError(body) IN
    IF apiErr.ok /\ apiErr.Message # <<>>
    THEN APIErrorOf(apiErr.Message, apiErr.Code)
    ELSE Errorf(<<"API request failed with ", "status ">> \o Itoa(status))

\* The error of a non-2xx response: the decoded APIError when the body carries a
\* message, else the status and the raw body.
StatusError(status, body) ==
    LET apiErr == UnmarshalAPIError(body) IN
    IF apiErr.ok /\ apiErr.Message # <<>>
    THEN APIErrorOf(apiErr.Message, apiErr.Code)
    ELSE Errorf(<<"API request failed with ", "status ">> \o Itoa(status) \o <<": ">> \o Raw(body))

TransportError == Errorf(<<"failed to execute request: ", "dial tcp: i/o timeout">>)

\* Request from the round trip on: the error it returns (a transport failure, a
\* non-2xx status, a body that does not unmarshal into the result, or nil) ...
RequestError(rt, result) ==
    IF rt.failed THEN TransportError
    ELSE IF IsErrorStatus(rt.answer.status) THEN StatusError(rt.answer.status, rt.answer.body)
    ELSE IF result.type # "nil" /\ Len(Raw(rt.answer.body)) > 0 /\ ~Unmarshal(rt.answer.body, result).ok
    THEN Errorf(<<"failed to unmarshal response: ", "invalid character">>)
    ELSE NilError

\* ... and the caller's result value afterwards
RequestResult(rt, result) ==
    IF ~rt.failed /\ ~IsErrorStatus(rt.answer.status) /\ result.type # "nil" /\ Len(Raw(rt.answer.body)) > 0
       /\ Unmarshal(rt.answer.body, result).ok
    THEN Unmarshal(rt.answer.body, result).value
    ELSE result

\* What a client call leaves behind: the requests sent, the server afterwards, the
\* response, the error, the caller's result value and the raw text returned
Returned(rt, err, result, text) ==
    [sent |-> <<rt.req>>,
     server |-> rt.answer.server,
     resp |-> [failed |-> rt.failed, status |-> rt.answer.status, body |-> rt.answer.body],
     err |-> err, result |-> result, text |-> text]

RequestReturn(rt, result) == Returned(rt, RequestError(rt, result), RequestResult(rt, result), <<>>)

\* Variant of Request: a request that ended in an error sent once more.
RequestRetrying(c, method, path, body, result, srv, fate) ==
    LET r == RequestReturn(Do(srv, NewRequest(c, method, path, body), fate), result) IN
    [r EXCEPT !.sent = IF r.err.kind # "nil" THEN @ \o @ ELSE @]

\* APIClient.Request
Request(c, method, path, body, result, srv, fate) ==
    RequestReturn(Do(srv, NewRequest(c, method, path, body), fate), result)

\* Variant of PostRaw's return: the body handed back as a quoted JSON string.
PostRawReturnQuoted(rt) ==
    IF RequestError(rt, NoResult).kind # "nil"
    THEN Returned(rt, RequestError(rt, NoResult), NoResult, <<>>)
    ELSE Returned(rt, NilError, NoResult, <<"\"">> \o Raw(rt.answer.body) \o <<"\"">>)

\* PostRaw from the round trip on: no result to unmarshal, the body returned as a
\* string
PostRawReturn(rt) ==
    IF RequestError(rt, NoResult).kind # "nil"
    THEN Returned(rt, RequestError(rt, NoResult), NoResult, <<>>)
    ELSE Returned(rt, NilError, NoResult, Raw(rt.answer.body))

\* APIClient.PostRaw
PostRaw(c, path, body, srv, fate) == PostRawReturn(Do(srv, NewRequest(c, "POST", path, body), fate))

\* APIClient.Get, Post, Put, Delete
Get(c, path, result, srv, fate) == Request(c, "GET", path, NoBody, result, srv, fate)
Post(c, path, body, result, srv, fate) == Request(c, "POST", path, body, result, srv, fate)
Put(c, path, body, result, srv, fate) == Request(c, "PUT", path, body, result, srv, fate)
Delete(c, path, srv, fate) == Request(c, "DELETE", path, NoBody, NoResult, srv, fate)

------------------------------------------------------------------------------
(* Terraform values and diagnostics                                          *)

\* types.String, types.Int64, types.Bool: null, unknown or known
Known(v) == [st |-> "known", v |-> v]
NullString == [st |-> "null", v |-> <<>>]
UnknownString == [st |-> "unknown", v |-> <<>>]
NullBool == [st |-> "null", v |-> FALSE]
UnknownBool == [st |-> "unknown", v |-> FALSE]
UnknownInt == [st |-> "unknown", v |-> 0]
IsNull(a) == a.st = "null"
IsUnknown(a) == a.st = "unknown"
\* ValueString, ValueBool, ValueInt64: the zero value unless known
Value(a) == a.v

\* types.List of rule objects: null, unknown, or known with its patterns
KnownList(elems) == [st |-> "known", elems |-> elems]

\* resp.Diagnostics.AddError / AddAttributeError
AddError(summary, detail) == [summary |-> summary, attribute |-> "", detail |-> detail]
AddAttributeError(attribute, summary) == [summary |-> summary, attribute |-> attribute, detail |-> <<>>]
\* fmt.Sprintf("Unable to ...: %s", err)
ErrorDetail(what, err) == what \o ErrorText(err)

------------------------------------------------------------------------------
(* LakeFSProvider.Configure                                                  *)

\* The values a setting takes in the bounded model.
BlockEndpoint == <<"https://lakefs.block/api/v1", "/">>
EnvEndpoint == <<"https://lakefs.env/api/v1">>
BlockKey == <<"AKIA-block">>
EnvKey == <<"AKIA-env">>
BlockSecret == <<"secret-block">>
EnvSecret == <<"secret-env">>

\* Every provider block: each string attribute absent, empty or set; the flag
\* absent, false or true.
ProviderBlocks ==
    [endpoint : {NullString, Known(<<>>), Known(BlockEndpoint)},
     access_key_id : {NullString, Known(<<>>), Known(BlockKey)},
     secret_access_key : {NullString, Known(<<>>), Known(BlockSecret)},
     skip_ssl_verify : {NullBool, Known(FALSE), Known(TRUE)}]
\* Every environment: each variable unset (os.Getenv gives "") or set.
Environments ==
    [LAKEFS_ENDPOINT : {<<>>, EnvEndpoint},
     LAKEFS_ACCESS_KEY_ID : {<<>>, EnvKey},
     LAKEFS_SECRET_ACCESS_KEY : {<<>>, EnvSecret}]

\* The environment testAccPreCheck demands and the empty provider block of the
\* acceptance tests.
TestEnvironment ==
    [LAKEFS_ENDPOINT |-> EnvEndpoint, LAKEFS_ACCESS_KEY_ID |-> EnvKey, LAKEFS_SECRET_ACCESS_KEY |-> EnvSecret]
EmptyBlock ==
    [endpoint |-> NullString, access_key_id |-> NullString, secret_access_key |-> NullString,
     skip_ssl_verify |-> NullBool]


\* Variant of the override: the environment variable wins when it is set.
EffectiveStringEnvFirst(attr, env) == IF env # <<>> THEN env ELSE Value(attr)

\* endpoint := os.Getenv(...); if !config.X.IsNull() { endpoint = config.X.ValueString() }
EffectiveString(attr, env) == IF ~IsNull(attr) THEN Value(attr) ELSE env
\* Variant of the default: verification skipped unless the block says otherwise.
EffectiveSkipDefaultTrue(attr) == IF ~IsNull(attr) THEN Value(attr) ELSE TRUE

\* skipSSLVerify := false; if !config.SkipSSLVerify.IsNull() { ... ValueBool() }
EffectiveSkip(attr) == IF ~IsNull(attr) THEN Value(attr) ELSE FALSE

\* Variant of the three checks: Configure returning at the first empty value.
ConfigureDiagnosticsFirst(endpoint, accessKeyID, secretAccessKey) ==
    IF endpoint = <<>> THEN <<AddAttributeError("endpoint", "Missing LakeFS API Endpoint")>>
    ELSE IF accessKeyID = <<>> THEN <<AddAttributeError("access_key_id", "Missing LakeFS Access Key ID")>>
    ELSE IF secretAccessKey = <<>>
    THEN <<AddAttributeError("secret_access_key", "Missing LakeFS Secret Access Key")>>
    ELSE <<>>

\* the three checks for a missing or empty value
ConfigureDiagnostics(endpoint, accessKeyID, secretAccessKey) ==
    (IF endpoint = <<>> THEN <<AddAttributeError("endpoint", "Missing LakeFS API Endpoint")>> ELSE <<>>)
    \o (IF accessKeyID = <<>> THEN <<AddAttributeError("access_key_id", "Missing LakeFS Access Key ID")>> ELSE <<>>)
    \o (IF secretAccessKey = <<>>
        THEN <<AddAttributeError("secret_access_key", "Missing LakeFS Secret Access Key")>> ELSE <<>>)

\* The client Configure publishes as ResourceData and DataSourceData.
ConfigureClient(cfg, env) ==
    LET endpoint == EffectiveString(cfg.endpoint, env.LAKEFS_ENDPOINT)
        accessKeyID == EffectiveString(cfg.access_key_id, env.LAKEFS_ACCESS_KEY_ID)
        secretAccessKey == EffectiveString(cfg.secret_access_key, env.LAKEFS_SECRET_ACCESS_KEY)
    IN IF ConfigureDiagnostics(endpoint, accessKeyID, secretAccessKey) # <<>>
       THEN NoClient
       ELSE [set |-> TRUE, Endpoint |-> endpoint, AccessKeyID |-> accessKeyID,
             SecretAccessKey |-> secretAccessKey, SkipSSLVerify |-> EffectiveSkip(cfg.skip_ssl_verify)]

------------------------------------------------------------------------------
(* The outcome of a handler call                                             *)

NoState == [kind |-> "none"]
NoResponse == [failed |-> FALSE, status |-> 0, body |-> EmptyBody]
\* a handler that calls the client not at all
NoCall(srv) ==
    [sent |-> <<>>, server |-> srv, resp |-> NoResponse, err |-> NilError, result |-> NoResult, text |-> <<>>]

\* call: the client call the handler made; diags: its error diagnostics; state:
\* the block's Terraform state after it; wrote: resp.State.Set ran; removed:
\* resp.State.RemoveResource ran.
Outcome(call, diags, state, wrote, removed) ==
    [sent |-> call.sent, server |-> call.server, resp |-> call.resp, err |-> call.err,
     result |-> call.result, text |-> call.text,
     diags |-> diags, state |-> state, wrote |-> wrote, removed |-> removed]

------------------------------------------------------------------------------
(* lakefs_repository                                                         *)

\* The plans of a lakefs_repository block: name and storage_namespace set,
\* default_branch set or left to the server, computed attributes unknown.
RepositoryPlans ==
    {[kind |-> "repository", id |-> UnknownString, repository |-> UnknownString, name |-> Known(RepoName),
      storage_namespace |-> Known(Namespace), storage_id |-> UnknownString, default_branch |-> b,
      creation_date |-> UnknownInt, read_only |-> UnknownBool, sample_data |-> NullBool]
     : b \in {Known(MainBranch), UnknownString}}

\* RepositoryCreateRequest from the plan
RepositoryCreateRequest(data) ==
    [type |-> "RepositoryCreateRequest",
     name |-> Value(data.name),
     storage_namespace |-> Value(data.storage_namespace),
     default_branch |-> IF ~IsNull(data.default_branch) /\ ~IsUnknown(data.default_branch)
                        THEN Value(data.default_branch) ELSE <<>>,
     sample_data |-> IF ~IsNull(data.sample_data) /\ ~IsUnknown(data.sample_data)
                     THEN Value(data.sample_data) ELSE FALSE,
     read_only |-> IF ~IsNull(data.read_only) /\ ~IsUnknown(data.read_only)
                   THEN Value(data.read_only) ELSE FALSE]

\* Variant of the response mapping: the repository attribute is left as it was.
RepositoryFromResponseNoRepository(data, result) ==
    [data EXCEPT !.id = Known(result.id),
                 !.name = Known(result.id),
                 !.storage_namespace = Known(result.storage_namespace),
                 !.storage_id = Known(result.storage_id),
                 !.default_branch = Known(result.default_branch),
                 !.creation_date = Known(result.creation_date),
                 !.read_only = Known(result.read_only)]

\* "Map response to state"
RepositoryFromResponse(data, result) ==
    [data EXCEPT !.id = Known(result.id),
                 !.repository = Known(result.id),
                 !.name = Known(result.id),
                 !.storage_namespace = Known(result.storage_namespace),
                 !.storage_id = Known(result.storage_id),
                 !.default_branch = Known(result.default_branch),
                 !.creation_date = Known(result.creation_date),
                 !.read_only = Known(result.read_only)]

\* repoID := data.Id.ValueString(); if repoID == "" { repoID = data.Name.ValueString() }
RepositoryID(data) == IF Value(data.id) = <<>> THEN Value(data.name) ELSE Value(data.id)

\* RepositoryResource.Create
RepositoryCreate(plan, prior, c, srv, fate) ==
    LET r == Post(c, RepositoriesPath, ObjectBody(RepositoryCreateRequest(plan)), ZeroRepository, srv, fate) IN
    IF r.err.kind # "nil"
    THEN Outcome(r, <<AddError("Client Error", ErrorDetail(<<"Unable to create repository: ">>, r.err))>>,
                 prior, FALSE, FALSE)
    ELSE Outcome(r, <<>>, RepositoryFromResponse(plan, r.result), TRUE, FALSE)

\* Variant of the repository read: sample_data set to false, as ImportState does.
RepositoryReadSettingSampleData(data, c, srv, fate) ==
    LET r == Get(c, RepositoryPath(RepositoryID(data)), ZeroRepository, srv, fate) IN
    IF r.err.kind # "nil"
    THEN IF IsNotFound(r.err)
         THEN Outcome(r, <<>>, NoState, FALSE, TRUE)
         ELSE Outcome(r, <<AddError("Client Error", ErrorDetail(<<"Unable to read repository: ">>, r.err))>>,
                      data, FALSE, FALSE)
    ELSE Outcome(r, <<>>, [RepositoryFromResponse(data, r.result) EXCEPT !.sample_data = Known(FALSE)],
                 TRUE, FALSE)

\* RepositoryResource.Read
RepositoryRead(data, c, srv, fate) ==
    LET r == Get(c, RepositoryPath(RepositoryID(data)), ZeroRepository, srv, fate) IN
    IF r.err.kind # "nil"
    THEN IF IsNotFound(r.err)
         THEN Outcome(r, <<>>, NoState, FALSE, TRUE)
         ELSE Outcome(r, <<AddError("Client Error", ErrorDetail(<<"Unable to read repository: ">>, r.err))>>,
                      data, FALSE, FALSE)
    ELSE Outcome(r, <<>>, RepositoryFromResponse(data, r.result), TRUE, FALSE)

\* RepositoryResource.Update
RepositoryUpdate(plan, c, srv) == Outcome(NoCall(srv), <<>>, plan, TRUE, FALSE)

\* RepositoryResource.Delete; with no error diagnostic the framework drops the state
RepositoryDelete(data, c, srv, fate) ==
    LET r == Delete(c, RepositoryPath(RepositoryID(data)), srv, fate) IN
    IF r.err.kind # "nil" /\ ~IsNotFound(r.err)
    THEN Outcome(r, <<AddError("Client Error", ErrorDetail(<<"Unable to delete repository: ">>, r.err))>>,
                 data, FALSE, FALSE)
    ELSE Outcome(r, <<>>, NoState, FALSE, FALSE)

\* Variant of the repository import: default_branch is not taken from the
\* response.
RepositoryImportStateNoBranch(id, prior, c, srv, fate) ==
    LET r == Get(c, RepositoryPath(id), ZeroRepository, srv, fate) IN
    IF r.err.kind # "nil"
    THEN Outcome(r, <<AddError("Import Error",
                               ErrorDetail(<<"Unable to import repository ">> \o id \o <<": ">>, r.err))>>,
                 prior, FALSE, FALSE)
    ELSE Outcome(r, <<>>,
                 [kind |-> "repository", id |-> Known(r.result.id), repository |-> Known(r.result.id),
                  name |-> Known(r.result.id), storage_namespace |-> Known(r.result.storage_namespace),
                  storage_id |-> Known(r.result.storage_id), default_branch |-> NullString,
                  creation_date |-> Known(r.result.creation_date), read_only |-> Known(r.result.read_only),
                  sample_data |-> Known(FALSE)],
                 TRUE, FALSE)

\* RepositoryResource.ImportState
RepositoryImportState(id, prior, c, srv, fate) ==
    LET r == Get(c, RepositoryPath(id), ZeroRepository, srv, fate) IN
    IF r.err.kind # "nil"
    THEN Outcome(r, <<AddError("Import Error",
                               ErrorDetail(<<"Unable to import repository ">> \o id \o <<": ">>, r.err))>>,
                 prior, FALSE, FALSE)
    ELSE Outcome(r, <<>>,
                 [kind |-> "repository", id |-> Known(r.result.id), repository |-> Known(r.result.id),
                  name |-> Known(r.result.id), storage_namespace |-> Known(r.result.storage_namespace),
                  storage_id |-> Known(r.result.storage_id), default_branch |-> Known(r.result.default_branch),
                  creation_date |-> Known(r.result.creation_date), read_only |-> Known(r.result.read_only),
                  sample_data |-> Known(FALSE)],
                 TRUE, FALSE)

------------------------------------------------------------------------------
(* lakefs_branch                                                             *)

BranchPlans ==
    {[kind |-> "branch", id |-> UnknownString, repository |-> Known(RepoName), name |-> Known(BranchName),
      source |-> Known(MainBranch), commit_id |-> UnknownString, branch |-> UnknownString]}

\* Variant of the branch create request: name and source taken from each other's
\* attribute.
BranchCreateRequestSwapped(data) ==
    [type |-> "BranchCreateRequest", name |-> Value(data.source), source |-> Value(data.name)]

BranchCreateRequest(data) ==
    [type |-> "BranchCreateRequest", name |-> Value(data.name), source |-> Value(data.source)]

\* branchName := data.Name.ValueString(); if branchName == "" { branchName = data.Branch.ValueString() }
BranchNameOf(data) == IF Value(data.name) = <<>> THEN Value(data.branch) ELSE Value(data.name)

\* BranchResource.Create
BranchCreate(plan, prior, c, srv, fate) ==
    LET repository == Value(plan.repository)
        createReq == BranchCreateRequest(plan)
        r == PostRaw(c, BranchesPath(repository), ObjectBody(createReq), srv, fate)
    IN IF r.err.kind # "nil"
       THEN Outcome(r, <<AddError("Client Error", ErrorDetail(<<"Unable to create branch: ">>, r.err))>>,
                    prior, FALSE, FALSE)
       ELSE Outcome(r, <<>>,
                    [plan EXCEPT !.id = Known(repository \o <<"/">> \o createReq.name),
                                 !.commit_id = Known(r.text),
                                 !.branch = Known(createReq.name)],
                    TRUE, FALSE)

\* BranchResource.Read
BranchRead(data, c, srv, fate) ==
    LET r == Get(c, BranchPath(Value(data.repository), BranchNameOf(data)), ZeroRef, srv, fate) IN
    IF r.err.kind # "nil"
    THEN IF IsNotFound(r.err)
         THEN Outcome(r, <<>>, NoState, FALSE, TRUE)
         ELSE Outcome(r, <<AddError("Client Error", ErrorDetail(<<"Unable to read branch: ">>, r.err))>>,
                      data, FALSE, FALSE)
    ELSE Outcome(r, <<>>, [data EXCEPT !.commit_id = Known(r.result.commit_id)], TRUE, FALSE)

\* Variant of the branch update: the state keeps the plan's computed commit_id
\* as the empty string.
BranchUpdateEmptyCommit(plan, c, srv) ==
    Outcome(NoCall(srv), <<>>, [plan EXCEPT !.commit_id = Known(<<>>)], TRUE, FALSE)

\* BranchResource.Update
BranchUpdate(plan, c, srv) == Outcome(NoCall(srv), <<>>, plan, TRUE, FALSE)

\* BranchResource.Delete
BranchDelete(data, c, srv, fate) ==
    LET r == Delete(c, BranchPath(Value(data.repository), BranchNameOf(data)), srv, fate) IN
    IF r.err.kind # "nil" /\ ~IsNotFound(r.err)
    THEN Outcome(r, <<AddError("Client Error", ErrorDetail(<<"Unable to delete branch: ">>, r.err))>>,
                 data, FALSE, FALSE)
    ELSE Outcome(r, <<>>, NoState, FALSE, FALSE)

\* BranchResource.ImportState
BranchImportState(id, prior, c, srv, fate) ==
    LET parts == SplitN2(id, "/") IN
    IF Len(parts) # 2
    THEN Outcome(NoCall(srv),
                 <<AddError("Invalid Import ID",
                            <<"Expected import ID in format 'repository/branch', got: ">> \o id)>>,
                 prior, FALSE, FALSE)
    ELSE LET r == Get(c, BranchPath(parts[1], parts[2]), ZeroRef, srv, fate) IN
         IF r.err.kind # "nil"
         THEN Outcome(r, <<AddError("Import Error",
                                    ErrorDetail(<<"Unable to import branch ">> \o id \o <<": ">>, r.err))>>,
                      prior, FALSE, FALSE)
         ELSE Outcome(r, <<>>,
                      [kind |-> "branch", id |-> Known(id), repository |-> Known(parts[1]),
                       name |-> Known(parts[2]), source |-> Known(<<>>),
                       commit_id |-> Known(r.result.commit_id), branch |-> Known(parts[2])],
                      TRUE, FALSE)

------------------------------------------------------------------------------
(* lakefs_tag                                                                *)

TagPlans ==
    {[kind |-> "tag", id |-> Known(TagName), repository |-> Known(RepoName), ref |-> Known(MainBranch),
      commit_id |-> UnknownString, tag |-> UnknownString, force |-> NullBool]}

TagCreateRequest(data) == [type |-> "TagCreateRequest", id |-> Value(data.id), ref |-> Value(data.ref)]

\* tagName := data.Id.ValueString(); if tagName == "" { tagName = data.Tag.ValueString() }
TagNameOf(data) == IF Value(data.id) = <<>> THEN Value(data.tag) ELSE Value(data.id)

\* Variant of the tag creation: commit_id taken from the response's id.
TagCreateCommitFromID(plan, prior, c, srv, fate) ==
    LET tagName == Value(plan.id)
        r == Post(c, TagsPath(Value(plan.repository)), ObjectBody(TagCreateRequest(plan)), ZeroRef, srv, fate)
    IN IF r.err.kind # "nil"
       THEN Outcome(r, <<AddError("Client Error", ErrorDetail(<<"Unable to create tag: ">>, r.err))>>,
                    prior, FALSE, FALSE)
       ELSE Outcome(r, <<>>,
                    [plan EXCEPT !.commit_id = Known(r.result.id), !.tag = Known(tagName)],
                    TRUE, FALSE)

\* TagResource.Create
TagCreate(plan, prior, c, srv, fate) ==
    LET tagName == Value(plan.id)
        r == Post(c, TagsPath(Value(plan.repository)), ObjectBody(TagCreateRequest(plan)), ZeroRef, srv, fate)
    IN IF r.err.kind # "nil"
       THEN Outcome(r, <<AddError("Client Error", ErrorDetail(<<"Unable to create tag: ">>, r.err))>>,
                    prior, FALSE, FALSE)
       ELSE Outcome(r, <<>>,
                    [plan EXCEPT !.commit_id = Known(r.result.commit_id), !.tag = Known(tagName)],
                    TRUE, FALSE)

\* TagResource.Read
TagRead(data, c, srv, fate) ==
    LET r == Get(c, TagPath(Value(data.repository), TagNameOf(data)), ZeroRef, srv, fate) IN
    IF r.err.kind # "nil"
    THEN IF IsNotFound(r.err)
         THEN Outcome(r, <<>>, NoState, FALSE, TRUE)
         ELSE Outcome(r, <<AddError("Client Error", ErrorDetail(<<"Unable to read tag: ">>, r.err))>>,
                      data, FALSE, FALSE)
    ELSE Outcome(r, <<>>, [data EXCEPT !.commit_id = Known(r.result.commit_id)], TRUE, FALSE)

\* TagResource.Update
TagUpdate(plan, c, srv) == Outcome(NoCall(srv), <<>>, plan, TRUE, FALSE)

\* TagResource.Delete
TagDelete(data, c, srv, fate) ==
    LET r == Delete(c, TagPath(Value(data.repository), TagNameOf(data)), srv, fate) IN
    IF r.err.kind # "nil" /\ ~IsNotFound(r.err)
    THEN Outcome(r, <<AddError("Client Error", ErrorDetail(<<"Unable to delete tag: ">>, r.err))>>,
                 data, FALSE, FALSE)
    ELSE Outcome(r, <<>>, NoState, FALSE, FALSE)

\* TagResource.ImportState
TagImportState(id, prior, c, srv, fate) ==
    LET parts == SplitN2(id, "/") IN
    IF Len(parts) # 2
    THEN Outcome(NoCall(srv),
                 <<AddError("Invalid Import ID",
                            <<"Expected import ID in format 'repository/tag', got: ">> \o id)>>,
                 prior, FALSE, FALSE)
    ELSE LET r == Get(c, TagPath(parts[1], parts[2]), ZeroRef, srv, fate) IN
         IF r.err.kind # "nil"
         THEN Outcome(r, <<AddError("Import Error",
                                    ErrorDetail(<<"Unable to import tag ">> \o id \o <<": ">>, r.err))>>,
                      prior, FALSE, FALSE)
         ELSE Outcome(r, <<>>,
                      [kind |-> "tag", id |-> Known(parts[2]), repository |-> Known(parts[1]),
                       ref |-> Known(r.result.commit_id), commit_id |-> Known(r.result.commit_id),
                       tag |-> Known(parts[2]), force |-> Known(FALSE)],
                      TRUE, FALSE)

------------------------------------------------------------------------------
(* lakefs_branch_protection                                                  *)

\* The longest rules list of a plan.
MaxRules == 1

RECURSIVE RuleLists(_)
RuleLists(n) ==
    IF n = 0 THEN {<<>>}
    ELSE RuleLists(n - 1) \cup {Append(l, p) : l \in {m \in RuleLists(n - 1) : Len(m) = n - 1},
                                              p \in {RuleMain, RuleRelease}}

BranchProtectionPlans ==
    {[kind |-> "branch_protection", repository |-> Known(RepoName), id |-> UnknownString,
      rules |-> KnownList(l)] : l \in RuleLists(MaxRules)}

\* A sequence back to front.
RECURSIVE Reversed(_)
Reversed(l) == IF l = <<>> THEN <<>> ELSE Append(Reversed(Tail(l)), Head(l))

\* Variant of extractBranchProtectionRules: each rule put before the ones
\* already taken.
extractBranchProtectionRulesPrepending(rulesList) ==
    IF rulesList.st # "known" THEN [isNil |-> TRUE, rules |-> <<>>]
    ELSE [isNil |-> rulesList.elems = <<>>, rules |-> Reversed(rulesList.elems)]

\* extractBranchProtectionRules: nil for a null or unknown list, and nil too when
\* the loop appends nothing
extractBranchProtectionRules(rulesList) ==
    IF rulesList.st # "known" THEN [isNil |-> TRUE, rules |-> <<>>]
    ELSE [isNil |-> rulesList.elems = <<>>, rules |-> rulesList.elems]

\* branchProtectionRulesToTerraformList
branchProtectionRulesToTerraformList(rules) ==
    IF Len(rules) = 0 THEN KnownList(<<>>) ELSE KnownList(rules)

\* BranchProtectionResource.Create
BranchProtectionCreate(plan, prior, c, srv, fate) ==
    LET repository == Value(plan.repository)
        rules == extractBranchProtectionRules(plan.rules)
        r == Put(c, BranchProtectionPath(repository), RulesBody(rules.isNil, rules.rules), NoResult, srv, fate)
    IN IF r.err.kind # "nil"
       THEN Outcome(r, <<AddError("Client Error",
                                  ErrorDetail(<<"Unable to create branch protection rules: ">>, r.err))>>,
                    prior, FALSE, FALSE)
       ELSE Outcome(r, <<>>, [plan EXCEPT !.id = Known(repository)], TRUE, FALSE)

\* BranchProtectionResource.Read
BranchProtectionRead(data, c, srv, fate) ==
    LET repository == Value(data.repository)
        r == Get(c, BranchProtectionPath(repository), ZeroRules, srv, fate)
    IN IF r.err.kind # "nil"
       THEN IF IsNotFound(r.err)
            THEN Outcome(r, <<>>, NoState, FALSE, TRUE)
            ELSE Outcome(r, <<AddError("Client Error",
                                       ErrorDetail(<<"Unable to read branch protection rules: ">>, r.err))>>,
                         data, FALSE, FALSE)
       ELSE Outcome(r, <<>>,
                    [data EXCEPT !.rules = branchProtectionRulesToTerraformList(r.result.rules),
                                 !.id = Known(repository)],
                    TRUE, FALSE)

\* Variant of the branch protection update: the state keeps its former rules.
BranchProtectionUpdateKeepsRules(plan, prior, c, srv, fate) ==
    LET repository == Value(plan.repository)
        rules == extractBranchProtectionRules(plan.rules)
        r == Put(c, BranchProtectionPath(repository), RulesBody(rules.isNil, rules.rules), NoResult, srv, fate)
    IN IF r.err.kind # "nil"
       THEN Outcome(r, <<AddError("Client Error",
                                  ErrorDetail(<<"Unable to update branch protection rules: ">>, r.err))>>,
                    prior, FALSE, FALSE)
       ELSE Outcome(r, <<>>, [prior EXCEPT !.id = Known(repository)], TRUE, FALSE)

\* BranchProtectionResource.Update
BranchProtectionUpdate(plan, prior, c, srv, fate) ==
    LET repository == Value(plan.repository)
        rules == extractBranchProtectionRules(plan.rules)
        r == Put(c, BranchProtectionPath(repository), RulesBody(rules.isNil, rules.rules), NoResult, srv, fate)
    IN IF r.err.kind # "nil"
       THEN Outcome(r, <<AddError("Client Error",
                                  ErrorDetail(<<"Unable to update branch protection rules: ">>, r.err))>>,
                    prior, FALSE, FALSE)
       ELSE Outcome(r, <<>>, [plan EXCEPT !.id = Known(repository)], TRUE, FALSE)

\* Variant of the branch protection delete: a PUT of a nil slice.
BranchProtectionDeleteNil(data, c, srv, fate) ==
    LET r == Put(c, BranchProtectionPath(Value(data.repository)), RulesBody(TRUE, <<>>), NoResult, srv, fate) IN
    IF r.err.kind # "nil" /\ ~IsNotFound(r.err)
    THEN Outcome(r, <<AddError("Client Error",
                               ErrorDetail(<<"Unable to delete branch protection rules: ">>, r.err))>>,
                 data, FALSE, FALSE)
    ELSE Outcome(r, <<>>, NoState, FALSE, FALSE)

\* BranchProtectionResource.Delete: a PUT of []BranchProtectionRule{}
BranchProtectionDelete(data, c, srv, fate) ==
    LET r == Put(c, BranchProtectionPath(Value(data.repository)), RulesBody(FALSE, <<>>), NoResult, srv, fate) IN
    IF r.err.kind # "nil" /\ ~IsNotFound(r.err)
    THEN Outcome(r, <<AddError("Client Error",
                               ErrorDetail(<<"Unable to delete branch protection rules: ">>, r.err))>>,
                 data, FALSE, FALSE)
    ELSE Outcome(r, <<>>, NoState, FALSE, FALSE)

\* BranchProtectionResource.ImportState
BranchProtectionImportState(id, prior, c, srv, fate) ==
    LET r == Get(c, BranchProtectionPath(id), ZeroRules, srv, fate) IN
    IF r.err.kind # "nil"
    THEN Outcome(r, <<AddError("Import Error",
                               ErrorDetail(<<"Unable to import branch protection rules for ">> \o id \o <<": ">>,
                                           r.err))>>,
                 prior, FALSE, FALSE)
    ELSE Outcome(r, <<>>,
                 [kind |-> "branch_protection", repository |-> Known(id), id |-> Known(id),
                  rules |-> branchProtectionRulesToTerraformList(r.result.rules)],
                 TRUE, FALSE)

------------------------------------------------------------------------------
(* The data sources                                                          *)

RepositoryDataConfig ==
    [kind |-> "ds_repository", repository |-> Known(RepoName), id |-> UnknownString,
     storage_namespace |-> UnknownString, storage_id |-> UnknownString, default_branch |-> UnknownString,
     creation_date |-> UnknownInt, read_only |-> UnknownBool]
BranchDataConfig ==
    [kind |-> "ds_branch", repository |-> Known(RepoName), branch |-> Known(MainBranch),
     id |-> UnknownString, commit_id |-> UnknownString]
CommitDataConfig ==
    [kind |-> "ds_commit", repository |-> Known(RepoName), commit_id |-> Known(Commit0),
     id |-> UnknownString, committer |-> UnknownString, creation_date |-> UnknownInt]
CurrentUserDataConfig ==
    [kind |-> "ds_current_user", id |-> UnknownString, creation_date |-> UnknownInt]

\* Variant of the repository data source: default_branch is not mapped.
RepositoryDataReadNoBranch(data, prior, c, srv, fate) ==
    LET r == Get(c, RepositoryPath(Value(data.repository)), ZeroRepository, srv, fate) IN
    IF r.err.kind # "nil"
    THEN Outcome(r, <<AddError("Client Error", ErrorDetail(<<"Unable to read repository: ">>, r.err))>>,
                 prior, FALSE, FALSE)
    ELSE Outcome(r, <<>>,
                 [data EXCEPT !.id = Known(r.result.id),
                              !.storage_namespace = Known(r.result.storage_namespace),
                              !.storage_id = Known(r.result.storage_id),
                              !.creation_date = Known(r.result.creation_date),
                              !.read_only = Known(r.result.read_only)],
                 TRUE, FALSE)

\* RepositoryDataSource.Read
RepositoryDataRead(data, prior, c, srv, fate) ==
    LET r == Get(c, RepositoryPath(Value(data.repository)), ZeroRepository, srv, fate) IN
    IF r.err.kind # "nil"
    THEN Outcome(r, <<AddError("Client Error", ErrorDetail(<<"Unable to read repository: ">>, r.err))>>,
                 prior, FALSE, FALSE)
    ELSE Outcome(r, <<>>,
                 [data EXCEPT !.id = Known(r.result.id),
                              !.storage_namespace = Known(r.result.storage_namespace),
                              !.storage_id = Known(r.result.storage_id),
                              !.default_branch = Known(r.result.default_branch),
                              !.creation_date = Known(r.result.creation_date),
                              !.read_only = Known(r.result.read_only)],
                 TRUE, FALSE)

\* Variant of the branch data source: id is the branch name alone.
BranchDataReadShortID(data, prior, c, srv, fate) ==
    LET repository == Value(data.repository)
        branch == Value(data.branch)
        r == Get(c, BranchPath(repository, branch), ZeroRef, srv, fate)
    IN IF r.err.kind # "nil"
       THEN Outcome(r, <<AddError("Client Error", ErrorDetail(<<"Unable to read branch: ">>, r.err))>>,
                    prior, FALSE, FALSE)
       ELSE Outcome(r, <<>>,
                    [data EXCEPT !.id = Known(branch),
                                 !.commit_id = Known(r.result.commit_id)],
                    TRUE, FALSE)

\* BranchDataSource.Read
BranchDataRead(data, prior, c, srv, fate) ==
    LET repository == Value(data.repository)
        branch == Value(data.branch)
        r == Get(c, BranchPath(repository, branch), ZeroRef, srv, fate)
    IN IF r.err.kind # "nil"
       THEN Outcome(r, <<AddError("Client Error", ErrorDetail(<<"Unable to read branch: ">>, r.err))>>,
                    prior, FALSE, FALSE)
       ELSE Outcome(r, <<>>,
                    [data EXCEPT !.id = Known(repository \o <<"/">> \o branch),
                                 !.commit_id = Known(r.result.commit_id)],
                    TRUE, FALSE)

\* CommitDataSource.Read
CommitDataRead(data, prior, c, srv, fate) ==
    LET r == Get(c, CommitPath(Value(data.repository), Value(data.commit_id)), ZeroCommit, srv, fate) IN
    IF r.err.kind # "nil"
    THEN Outcome(r, <<AddError("Client Error", ErrorDetail(<<"Unable to read commit: ">>, r.err))>>,
                 prior, FALSE, FALSE)
    ELSE Outcome(r, <<>>,
                 [data EXCEPT !.id = Known(r.result.id),
                              !.committer = Known(r.result.committer),
                              !.creation_date = Known(r.result.creation_date)],
                 TRUE, FALSE)

\* Variant of the current user read: a not-found error ends in silence, as in a
\* resource's Read.
CurrentUserDataReadSilent(data, prior, c, srv, fate) ==
    LET r == Get(c, UserPath, ZeroUser, srv, fate) IN
    IF r.err.kind # "nil"
    THEN IF IsNotFound(r.err)
         THEN Outcome(r, <<>>, NoState, FALSE, TRUE)
         ELSE Outcome(r, <<AddError("Client Error", ErrorDetail(<<"Unable to read current user: ">>, r.err))>>,
                      prior, FALSE, FALSE)
    ELSE Outcome(r, <<>>,
                 [data EXCEPT !.id = Known(r.result.id), !.creation_date = Known(r.result.creation_date)],
                 TRUE, FALSE)

\* CurrentUserDataSource.Read
CurrentUserDataRead(data, prior, c, srv, fate) ==
    LET r == Get(c, UserPath, ZeroUser, srv, fate) IN
    IF r.err.kind # "nil"
    THEN Outcome(r, <<AddError("Client Error", ErrorDetail(<<"Unable to read current user: ">>, r.err))>>,
                 prior, FALSE, FALSE)
    ELSE Outcome(r, <<>>,
                 [data EXCEPT !.id = Known(r.result.id), !.creation_date = Known(r.result.creation_date)],
                 TRUE, FALSE)

------------------------------------------------------------------------------
(* The runs                                                                  *)

\* The error answers a handler's request may get: a 404 and a 500, each with
\* bodies of every shape the client tells apart.
NotFoundBodies ==
    {EmptyBody, TextBody(<<"<html>Not Found</html>">>), ErrorObject(Absent, Absent),
     ErrorObject(JString(<<"not found">>), Absent), ErrorObject(JString(<<"not found">>), JNumber(404))}
ServerErrorBodies ==
    {TextBody(<<"upstream answered ", "status ", "404">>),
     ErrorObject(JString(<<"internal error">>), Absent),
     ErrorObject(JString(<<"internal error">>), JNumber(500)),
     ErrorObject(JString(<<"upstream not found">>), JNumber(404)),
     ErrorObject(JString(<<"line one", LF, "line two">>), JMistyped(<<"\"500\"">>))}

\* What may happen to a handler's request.
Fates ==
    {Served, Lost(TRUE), Lost(FALSE)}
    \cup {Answered(404, b) : b \in NotFoundBodies}
    \cup {Answered(500, b) : b \in ServerErrorBodies}

ResourceKinds == {"repository", "branch", "tag", "branch_protection"}
DataSourceKinds == {"ds_repository", "ds_branch", "ds_commit", "ds_current_user"}

\* Variant of the type names: the branch resource takes the repository's name.
TypeNameBranchAsRepository(kind) ==
    <<"lakefs">> \o (CASE kind \in {"repository", "ds_repository", "branch"} -> <<"_repository">>
                       [] kind = "ds_branch"                      -> <<"_branch">>
                       [] kind = "tag"                              -> <<"_tag">>
                       [] kind = "branch_protection"                -> <<"_branch_protection">>
                       [] kind = "ds_commit"                        -> <<"_commit">>
                       [] kind = "ds_current_user"                  -> <<"_current_user">>)

\* Metadata of each handler: resp.TypeName = req.ProviderTypeName + suffix, with
\* the provider's type name "lakefs".
TypeName(kind) ==
    <<"lakefs">> \o (CASE kind \in {"repository", "ds_repository"} -> <<"_repository">>
                       [] kind \in {"branch", "ds_branch"}         -> <<"_branch">>
                       [] kind = "tag"                              -> <<"_tag">>
                       [] kind = "branch_protection"                -> <<"_branch_protection">>
                       [] kind = "ds_commit"                        -> <<"_commit">>
                       [] kind = "ds_current_user"                  -> <<"_current_user">>)

\* The import IDs tried: of an entity, of none, without and with more "/", and
\* with nothing after the "/".
RepositoryImportIDs == {RepoName, <<"nosuch">>}
BranchImportIDs ==
    {RepoName \o <<"/">> \o BranchName, RepoName, RepoName \o <<"/", "a", "/", "b">>, RepoName \o <<"/">>}
TagImportIDs ==
    {RepoName \o <<"/">> \o TagName, RepoName, RepoName \o <<"/", "a", "/", "b">>, RepoName \o <<"/">>}

Idle ==
    [op |-> "none", kind |-> "none", plan |-> NoState, importID |-> <<>>, prior |-> NoState,
     sent |-> <<>>, resp |-> NoResponse, err |-> NilError, result |-> NoResult, text |-> <<>>,
     diags |-> <<>>, state |-> NoState, wrote |-> FALSE, removed |-> FALSE]

\* The framework calls a handler only once Configure has published a client.
Ready == configured /\ providerData.set
Client == NewAPIClient(providerData)

\* No request, and no call of the client on its own.
NoRequest == [method |-> "none"]
NoInput == [failed |-> FALSE, status |-> 0, body |-> EmptyBody, result |-> NoResult]

\* The effect of a handler call with outcome h.
Handled(op, plan, id, h) ==
    /\ server' = h.server
    /\ tfstate' = h.state
    /\ created' = IF h.state = NoState THEN NoRequest
                  ELSE IF op = "Create" /\ h.wrote THEN h.sent[1]
                  ELSE created
    /\ last' = [op |-> op, kind |-> block, plan |-> plan, importID |-> id, prior |-> tfstate,
                sent |-> h.sent, resp |-> h.resp, err |-> h.err, result |-> h.result, text |-> h.text,
                diags |-> h.diags, state |-> h.state, wrote |-> h.wrote, removed |-> h.removed]
    /\ UNCHANGED <<config, environ, configured, providerData, providerDiags, block, input>>

\* The effect of a handler call with outcome h whose resulting state is only
\* compared with the block's state (ImportStateVerify), never stored.
Verified(op, id, h) ==
    /\ server' = h.server
    /\ last' = [op |-> op, kind |-> block, plan |-> NoState, importID |-> id, prior |-> tfstate,
                sent |-> h.sent, resp |-> h.resp, err |-> h.err, result |-> h.result, text |-> h.text,
                diags |-> h.diags, state |-> h.state, wrote |-> h.wrote, removed |-> h.removed]
    /\ UNCHANGED <<config, environ, configured, providerData, providerDiags, block, tfstate, created, input>>

Configure ==
    /\ ~configured
    /\ configured' = TRUE
    /\ providerData' = ConfigureClient(config, environ)
    /\ providerDiags' = ConfigureDiagnostics(EffectiveString(config.endpoint, environ.LAKEFS_ENDPOINT),
                                             EffectiveString(config.access_key_id, environ.LAKEFS_ACCESS_KEY_ID),
                                             EffectiveString(config.secret_access_key,
                                                             environ.LAKEFS_SECRET_ACCESS_KEY))
    /\ last' = [Idle EXCEPT !.op = "Configure"]
    /\ UNCHANGED <<config, environ, server, block, tfstate, created, input>>

CreateRepository ==
    /\ Ready /\ block = "repository" /\ tfstate = NoState
    /\ \E plan \in RepositoryPlans, fate \in Fates :
          Handled("Create", plan, <<>>, RepositoryCreate(plan, tfstate, Client, server, fate))
ReadRepository ==
    /\ Ready /\ tfstate.kind = "repository"
    /\ \E fate \in Fates : Handled("Read", NoState, <<>>, RepositoryRead(tfstate, Client, server, fate))
UpdateRepository ==
    /\ Ready /\ tfstate.kind = "repository"
    /\ \E plan \in RepositoryPlans : Handled("Update", plan, <<>>, RepositoryUpdate(plan, Client, server))
DeleteRepository ==
    /\ Ready /\ tfstate.kind = "repository"
    /\ \E fate \in Fates : Handled("Delete", NoState, <<>>, RepositoryDelete(tfstate, Client, server, fate))
ImportRepository ==
    /\ Ready /\ block = "repository" /\ tfstate = NoState
    /\ \E id \in RepositoryImportIDs, fate \in Fates :
          Handled("ImportState", NoState, id, RepositoryImportState(id, tfstate, Client, server, fate))
\* The import step of TestAccRepositoryResource: ImportState runs on a fresh
\* state with the id of the repository in state; the result is compared, the
\* block's state stays.
VerifyImportRepository ==
    /\ Ready /\ tfstate.kind = "repository" /\ ~IsUnknown(tfstate.id)
    /\ \E fate \in Fates :
          Verified("ImportStateVerify", Value(tfstate.id),
                   RepositoryImportState(Value(tfstate.id), NoState, Client, server, fate))

CreateBranch ==
    /\ Ready /\ block = "branch" /\ tfstate = NoState
    /\ \E plan \in BranchPlans, fate \in Fates :
          Handled("Create", plan, <<>>, BranchCreate(plan, tfstate, Client, server, fate))
ReadBranch ==
    /\ Ready /\ tfstate.kind = "branch"
    /\ \E fate \in Fates : Handled("Read", NoState, <<>>, BranchRead(tfstate, Client, server, fate))
UpdateBranch ==
    /\ Ready /\ tfstate.kind = "branch"
    /\ \E plan \in BranchPlans : Handled("Update", plan, <<>>, BranchUpdate(plan, Client, server))
DeleteBranch ==
    /\ Ready /\ tfstate.kind = "branch"
    /\ \E fate \in Fates : Handled("Delete", NoState, <<>>, BranchDelete(tfstate, Client, server, fate))
ImportBranch ==
    /\ Ready /\ block = "branch" /\ tfstate = NoState
    /\ \E id \in BranchImportIDs, fate \in Fates :
          Handled("ImportState", NoState, id, BranchImportState(id, tfstate, Client, server, fate))

CreateTag ==
    /\ Ready /\ block = "tag" /\ tfstate = NoState
    /\ \E plan \in TagPlans, fate \in Fates :
          Handled("Create", plan, <<>>, TagCreate(plan, tfstate, Client, server, fate))
ReadTag ==
    /\ Ready /\ tfstate.kind = "tag"
    /\ \E fate \in Fates : Handled("Read", NoState, <<>>, TagRead(tfstate, Client, server, fate))
UpdateTag ==
    /\ Ready /\ tfstate.kind = "tag"
    /\ \E plan \in TagPlans : Handled("Update", plan, <<>>, TagUpdate(plan, Client, server))
DeleteTag ==
    /\ Ready /\ tfstate.kind = "tag"
    /\ \E fate \in Fates : Handled("Delete", NoState, <<>>, TagDelete(tfstate, Client, server, fate))
ImportTag ==
    /\ Ready /\ block = "tag" /\ tfstate = NoState
    /\ \E id \in TagImportIDs, fate \in Fates :
          Handled("ImportState", NoState, id, TagImportState(id, tfstate, Client, server, fate))

CreateBranchProtection ==
    /\ Ready /\ block = "branch_protection" /\ tfstate = NoState
    /\ \E plan \in BranchProtectionPlans, fate \in Fates :
          Handled("Create", plan, <<>>, BranchProtectionCreate(plan, tfstate, Client, server, fate))
ReadBranchProtection ==
    /\ Ready /\ tfstate.kind = "branch_protection"
    /\ \E fate \in Fates : Handled("Read", NoState, <<>>, BranchProtectionRead(tfstate, Client, server, fate))
UpdateBranchProtection ==
    /\ Ready /\ tfstate.kind = "branch_protection"
    /\ \E plan \in BranchProtectionPlans, fate \in Fates :
          Handled("Update", plan, <<>>, BranchProtectionUpdate(plan, tfstate, Client, server, fate))
DeleteBranchProtection ==
    /\ Ready /\ tfstate.kind = "branch_protection"
    /\ \E fate \in Fates :
          Handled("Delete", NoState, <<>>, BranchProtectionDelete(tfstate, Client, server, fate))
ImportBranchProtection ==
    /\ Ready /\ block = "branch_protection" /\ tfstate = NoState
    /\ \E id \in RepositoryImportIDs, fate \in Fates :
          Handled("ImportState", NoState, id, BranchProtectionImportState(id, tfstate, Client, server, fate))

ReadRepositoryData ==
    /\ Ready /\ block = "ds_repository"
    /\ \E fate \in Fates :
          Handled("Read", RepositoryDataConfig, <<>>,
                  RepositoryDataRead(RepositoryDataConfig, tfstate, Client, server, fate))
ReadBranchData ==
    /\ Ready /\ block = "ds_branch"
    /\ \E fate \in Fates :
          Handled("Read", BranchDataConfig, <<>>, BranchDataRead(BranchDataConfig, tfstate, Client, server, fate))
ReadCommitData ==
    /\ Ready /\ block = "ds_commit"
    /\ \E fate \in Fates :
          Handled("Read", CommitDataConfig, <<>>, CommitDataRead(CommitDataConfig, tfstate, Client, server, fate))
ReadCurrentUserData ==
    /\ Ready /\ block = "ds_current_user"
    /\ \E fate \in Fates :
          Handled("Read", CurrentUserDataConfig, <<>>,
                  CurrentUserDataRead(CurrentUserDataConfig, tfstate, Client, server, fate))

\* The entities are externally owned: someone else deletes the repository, with
\* all it holds.
OutOfBandDelete ==
    /\ server.repo.exists
    /\ server' = EmptyServer
    /\ UNCHANGED <<config, environ, configured, providerData, providerDiags, block, tfstate, created, input,
                   last>>

Init ==
    /\ config = EmptyBlock
    /\ environ = TestEnvironment
    /\ configured = FALSE
    /\ providerData = NoClient
    /\ providerDiags = <<>>
    /\ server \in {EmptyServer, FixtureServer}
    /\ block \in ResourceKinds \cup DataSourceKinds
    /\ tfstate = NoState
    /\ created = NoRequest
    /\ input = NoInput
    /\ last = Idle

Next ==
    \/ Configure
    \/ CreateRepository \/ ReadRepository \/ UpdateRepository \/ DeleteRepository \/ ImportRepository
    \/ VerifyImportRepository
    \/ CreateBranch \/ ReadBranch \/ UpdateBranch \/ DeleteBranch \/ ImportBranch
    \/ CreateTag \/ ReadTag \/ UpdateTag \/ DeleteTag \/ ImportTag
    \/ CreateBranchProtection \/ ReadBranchProtection \/ UpdateBranchProtection
    \/ DeleteBranchProtection \/ ImportBranchProtection
    \/ ReadRepositoryData \/ ReadBranchData \/ ReadCommitData \/ ReadCurrentUserData
    \/ OutOfBandDelete

Spec == Init /\ [][Next]_vars

------------------------------------------------------------------------------
(* Configure over every provider block and environment                       *)

InitConfigure ==
    /\ config \in ProviderBlocks
    /\ environ \in Environments
    /\ configured = FALSE
    /\ providerData = NoClient
    /\ providerDiags = <<>>
    /\ server = FixtureServer
    /\ block \in {"ds_current_user", "branch"}
    /\ tfstate = NoState
    /\ created = NoRequest
    /\ input = NoInput
    /\ last = Idle

\* Configure, then a handler that calls Request and one that calls PostRaw.
NextConfigure == Configure \/ ReadCurrentUserData \/ CreateBranch

SpecConfigure == InitConfigure /\ [][NextConfigure]_vars

------------------------------------------------------------------------------
(* The client on its own, over every response                                *)

\* The round trip of a call of the client on its own: it fails, or meets a response.
InputFate == IF input.failed THEN Lost(FALSE) ELSE Answered(input.status, input.body)

\* The statuses at and around the bounds of 200..299, and two error statuses.
Statuses == {199, 200, 204, 299, 300, 404, 500}
\* The bodies of a response: none, text that is not JSON, JSON that is not an
\* object, objects with and without "message" and "status_code", and entities.
ResponseBodies ==
    {EmptyBody, NullBody, ArrayBody(RulesEntity(<<>>)), ArrayBody(RulesEntity(<<RuleMain>>)),
     TextBody(<<"<html>Bad Gateway</html>">>), TextBody(<<"upstream answered ", "status ", "404">>),
     TextBody(Commit0),
     EntityObject(UserEntity), EntityObject(RefEntity(BranchName, Commit0)),
     ErrorObject(JMistyped(<<"7">>), Absent),
     ErrorObject(JString(<<"line one", LF, "line two">>), JMistyped(<<"\"404\"">>))}
    \cup {ErrorObject(m, c) : m \in {Absent, JString(<<>>), JString(<<"not found">>)},
                              c \in {Absent, JNumber(404), JNumber(500)}}
Results == {NoResult, ZeroRepository, ZeroRef, ZeroCommit, ZeroUser, ZeroRules}
Methods == {"GET", "POST", "PUT", "DELETE"}

Inputs ==
    [failed : {FALSE}, status : Statuses, body : ResponseBodies, result : Results]
    \cup [failed : {TRUE}, status : {0}, body : {EmptyBody}, result : Results]

Called(op, r) ==
    /\ last' = [Idle EXCEPT !.op = op, !.sent = r.sent, !.resp = r.resp, !.err = r.err,
                            !.result = r.result, !.text = r.text]
    /\ UNCHANGED <<config, environ, configured, providerData, providerDiags, server, block, tfstate,
                   created, input>>

CallRequest ==
    /\ last.op = "none"
    /\ \E method \in Methods :
          Called("Request", Request(Client, method, UserPath, NoBody, input.result, server, InputFate))

CallPostRaw ==
    /\ last.op = "none"
    /\ Called("PostRaw", PostRaw(Client, BranchesPath(RepoName), NoBody, server, InputFate))

InitClient ==
    /\ config = EmptyBlock
    /\ environ = TestEnvironment
    /\ configured = TRUE
    /\ providerData = ConfigureClient(EmptyBlock, TestEnvironment)
    /\ providerDiags = <<>>
    /\ server = FixtureServer
    /\ block = "ds_current_user"
    /\ tfstate = NoState
    /\ created = NoRequest
    /\ input \in Inputs
    /\ last = Idle

NextClient == CallRequest \/ CallPostRaw

SpecClient == InitClient /\ [][NextClient]_vars

-------------------------------------------------------------------------------
(* The two branch protection conversions on their own                        *)

\* The longest rules list the server answers with.
MaxLen == 3

Patterns == {RuleMain, RuleRelease, <<"feature/*">>}

RECURSIVE PatternLists(_)
PatternLists(n) ==
    IF n = 0 THEN {<<>>}
    ELSE PatternLists(n - 1) \cup {Append(l, p) : l \in {m \in PatternLists(n - 1) : Len(m) = n - 1},
                                                    p \in Patterns}

\* The answers to GET .../settings/branch_protection: an array of rules, null, or
\* no body at all.
RulesAnswers == {ArrayBody(RulesEntity(l)) : l \in PatternLists(MaxLen)} \cup {NullBody, EmptyBody}

\* The model ImportState builds: a zero BranchProtectionModel with its rules set.
RulesModel(rulesList) ==
    [kind |-> "branch_protection", repository |-> NullString, id |-> NullString, rules |-> rulesList]

\* The answer is decoded and converted, as Read and ImportState do.
Converted(r) ==
    /\ last' = [Idle EXCEPT !.op = "branchProtectionRulesToTerraformList", !.sent = r.sent, !.resp = r.resp,
                            !.err = r.err, !.result = r.result,
                            !.state = RulesModel(branchProtectionRulesToTerraformList(r.result.rules))]
    /\ UNCHANGED <<config, environ, configured, providerData, providerDiags, server, block, tfstate,
                   created, input>>

ConvertRules ==
    /\ last.op = "none"
    /\ Converted(Get(Client, BranchProtectionPath(RepoName), ZeroRules, server, Answered(200, input.body)))

\* The converted list is extracted again, as Create and Update do with a plan.
ExtractRules ==
    /\ last.op = "branchProtectionRulesToTerraformList"
    /\ last' = [last EXCEPT !.op = "extractBranchProtectionRules", !.plan = last.state,
                            !.result = [type |-> "rules",
                                        rules |-> extractBranchProtectionRules(last.state.rules).rules]]
    /\ UNCHANGED <<config, environ, configured, providerData, providerDiags, server, block, tfstate,
                   created, input>>

InitRules ==
    /\ config = EmptyBlock
    /\ environ = TestEnvironment
    /\ configured = TRUE
    /\ providerData = ConfigureClient(EmptyBlock, TestEnvironment)
    /\ providerDiags = <<>>
    /\ server = FixtureServer
    /\ block = "branch_protection"
    /\ tfstate = NoState
    /\ created = NoRequest
    /\ input \in {[NoInput EXCEPT !.status = 200, !.body = b, !.result = ZeroRules] : b \in RulesAnswers}
    /\ last = Idle

NextRules == ConvertRules \/ ExtractRules

SpecRules == InitRules /\ [][NextRules]_vars

------------------------------------------------------------------------------
(* Properties of the error mapping                                           *)

\* The last handler call got a response (the round trip did not fail) ...
Answered1 == last.sent # <<>> /\ ~last.resp.failed
\* ... with a status outside 200..299.
AnsweredError == Answered1 /\ (last.resp.status < 200 \/ last.resp.status > 299)

\* C1: for each resource, when the GET of Read is answered with status 404,
\* whatever the body, Read removes the resource from the state and reports no
\* error diagnostic.
ReadNotFoundRemoves ==
    (last.op = "Read" /\ last.kind \in ResourceKinds /\ Answered1 /\ last.resp.status = 404)
        => (last.removed /\ last.diags = <<>> /\ tfstate = NoState)

\* C2: for each resource, when the request of Delete is answered with status
\* 404, Delete reports no error diagnostic; for any other status outside
\* 200..299 it reports one.
DeleteNotFoundOrError ==
    (last.op = "Delete" /\ AnsweredError)
        => IF last.resp.status = 404 THEN last.diags = <<>> ELSE last.diags # <<>>

\* The body is a JSON object with a non-empty string "message".
CarriesMessage(body) == body.form = "object" /\ body.message.t = "string" /\ body.message.s # <<>>
\* The body decodes into an APIError: null, or an object whose "message" is a
\* string and whose "status_code" is an integer, where they are present.
DecodesAsAPIError(body) ==
    \/ body.form = "null"
    \/ body.form = "object" /\ body.message.t \in {"absent", "string"} /\ body.code.t \in {"absent", "number"}
\* The error of the last call, and the error diagnostic if there is one, contain t.
ErrorContains(t) ==
    /\ Contains(ErrorText(last.err), t)
    /\ last.diags # <<>> => Contains(last.diags[1].detail, t)

\* C3 as stated: after a non-2xx answer whose JSON body carries a non-empty
\* "message" the error (and the diagnostic) contains that message unchanged;
\* when the body has no such message it contains the status and the raw body.
MessagePassedThrough ==
    AnsweredError =>
        IF CarriesMessage(last.resp.body)
        THEN ErrorContains(last.resp.body.message.s)
        ELSE ErrorContains(Itoa(last.resp.status)) /\ ErrorContains(Raw(last.resp.body))

\* C3 amended: after a non-2xx answer whose body decodes into an APIError with a
\* non-empty message the error (and the diagnostic) contains that message
\* unchanged; in every other case it contains the status and the raw body.
DecodedMessagePassedThrough ==
    AnsweredError =>
        IF DecodesAsAPIError(last.resp.body) /\ CarriesMessage(last.resp.body)
        THEN ErrorContains(last.resp.body.message.s)
        ELSE ErrorContains(Itoa(last.resp.status)) /\ ErrorContains(Raw(last.resp.body))

\* A 500 with a message reached a diagnostic.
DecodedMessagePassedThroughWitness ==
    /\ AnsweredError /\ last.diags # <<>>
    /\ last.resp.status = 500
    /\ last.resp.body.message.s = <<"internal error">>
    /\ Contains(last.diags[1].detail, <<"internal error">>)

\* The body is JSON the result value can be filled from.
ValidJSONFor(body, result) ==
    \/ body.form = "null"
    \/ body.form = "object" /\ result.type # "rules"
    \/ body.form = "array" /\ result.type = "rules"

\* C4: Request returns nil exactly when the status is in 200..299 and the body
\* is empty, or is valid JSON for the result, or no result was requested; for
\* every status outside 200..299 it returns an error and leaves the result as
\* the caller passed it.
RequestNilExactly ==
    last.op = "Request" =>
        /\ last.err = NilError <=>
              /\ ~last.resp.failed
              /\ last.resp.status \in 200..299
              /\ \/ last.resp.body.form = "empty"
                 \/ input.result = NoResult
                 \/ ValidJSONFor(last.resp.body, input.result)
        /\ AnsweredError => last.err # NilError /\ last.result = input.result

\* A 299 with an entity filled the result; Request returned nil.
RequestNilExactlyWitness ==
    /\ last.op = "Request" /\ last.err = NilError
    /\ last.resp.status = 299
    /\ input.result = ZeroUser /\ last.result = UserEntity

------------------------------------------------------------------------------
(* Properties of the requests                                                *)

\* C5: every operation sends at most one request; after a request that failed
\* (transport error or status outside 200..299) nothing more is sent, Request's
\* error is what the operation ends on, and it writes no state.
AtMostOneRequest ==
    /\ Len(last.sent) <= 1
    /\ (last.sent # <<>> /\ (last.resp.failed \/ AnsweredError)) =>
          /\ last.err # NilError
          /\ ~last.wrote
          /\ last.diags # <<>> \/ (last.op \in {"Read", "Delete"} /\ IsNotFound(last.err))

\* A Create whose round trip failed sent its one request and ended on the error.
AtMostOneRequestWitness ==
    /\ last.op = "Create" /\ last.resp.failed
    /\ Len(last.sent) = 1
    /\ last.diags # <<>> /\ tfstate = NoState

\* C6: every request sent carries basic auth, the username the configured access
\* key ID and the password the configured secret access key.
BasicAuthOnEveryRequest ==
    \A i \in 1..Len(last.sent) :
        /\ last.sent[i].hasAuth
        /\ last.sent[i].user = IF IsNull(config.access_key_id) THEN environ.LAKEFS_ACCESS_KEY_ID
                               ELSE Value(config.access_key_id)
        /\ last.sent[i].pass = IF IsNull(config.secret_access_key) THEN environ.LAKEFS_SECRET_ACCESS_KEY
                               ELSE Value(config.secret_access_key)

\* PostRaw sent a request with the key of the block and the secret of the
\* environment.
BasicAuthOnEveryRequestWitness ==
    /\ last.op = "Create" /\ last.kind = "branch" /\ last.sent # <<>>
    /\ last.sent[1].user = BlockKey /\ last.sent[1].pass = EnvSecret

\* The name in the body of a create request.
CreatedName(req) ==
    IF req.body.v.type = "TagCreateRequest" THEN req.body.v.id ELSE req.body.v.name
\* The collection path of a plan and the name it plans.
CollectionPath(plan) ==
    CASE plan.kind = "repository" -> <<"/repositories">>
      [] plan.kind = "branch" -> <<"/repositories", "/">> \o plan.repository.v \o <<"/branches">>
      [] plan.kind = "tag" -> <<"/repositories", "/">> \o plan.repository.v \o <<"/tags">>
PlannedName(plan) == IF plan.kind = "tag" THEN plan.id.v ELSE plan.name.v

------------------------------------------------------------------------------
(* Properties of Configure                                                   *)

\* The value a setting gets from the block or, the attribute absent, from the
\* environment.
BlockOrEnv(attr, env) == IF attr.st = "null" THEN env ELSE attr.v
\* The setting is supplied: set non-empty in the block, or absent there and set
\* in the environment.
Supplied(attr, env) == (attr.st # "null" /\ attr.v # <<>>) \/ (attr.st = "null" /\ env # <<>>)

\* C8: the effective endpoint, access key ID and secret access key are the
\* block's values where the attribute is set and the environment variables'
\* otherwise; with every setting supplied by either means Configure publishes a
\* client, without diagnostics.
EffectiveSettings ==
    configured =>
        /\ providerData.set =>
              /\ providerData.Endpoint = BlockOrEnv(config.endpoint, environ.LAKEFS_ENDPOINT)
              /\ providerData.AccessKeyID = BlockOrEnv(config.access_key_id, environ.LAKEFS_ACCESS_KEY_ID)
              /\ providerData.SecretAccessKey =
                    BlockOrEnv(config.secret_access_key, environ.LAKEFS_SECRET_ACCESS_KEY)
        /\ (/\ Supplied(config.endpoint, environ.LAKEFS_ENDPOINT)
            /\ Supplied(config.access_key_id, environ.LAKEFS_ACCESS_KEY_ID)
            /\ Supplied(config.secret_access_key, environ.LAKEFS_SECRET_ACCESS_KEY))
              => providerData.set /\ providerDiags = <<>>

\* Configured from a block that sets the endpoint over the environment's and
\* leaves the access key ID to the environment.
EffectiveSettingsWitness ==
    /\ configured /\ providerData.set
    /\ config.endpoint = Known(BlockEndpoint) /\ environ.LAKEFS_ENDPOINT = EnvEndpoint
    /\ providerData.Endpoint = BlockEndpoint
    /\ IsNull(config.access_key_id) /\ providerData.AccessKeyID = EnvKey

\* The attributes whose effective value is empty.
EmptySettings ==
    {a \in {"endpoint", "access_key_id", "secret_access_key"} :
        (CASE a = "endpoint" -> BlockOrEnv(config.endpoint, environ.LAKEFS_ENDPOINT)
           [] a = "access_key_id" -> BlockOrEnv(config.access_key_id, environ.LAKEFS_ACCESS_KEY_ID)
           [] OTHER -> BlockOrEnv(config.secret_access_key, environ.LAKEFS_SECRET_ACCESS_KEY)) = <<>>}

\* C9: Configure publishes a client if and only if no effective setting is
\* empty; otherwise it reports one attribute error for each empty setting, all
\* in the one run, and handlers get no client.
ClientIffComplete ==
    configured =>
        /\ providerData.set <=> EmptySettings = {}
        /\ Len(providerDiags) = Cardinality(EmptySettings)
        /\ \A a \in EmptySettings : \E i \in 1..Len(providerDiags) : providerDiags[i].attribute = a
        /\ ~providerData.set => providerData = NoClient /\ last.sent = <<>>

\* Two settings empty: two attribute errors and no client.
ClientIffCompleteWitness ==
    /\ configured /\ ~providerData.set
    /\ EmptySettings = {"access_key_id", "secret_access_key"}
    /\ Len(providerDiags) = 2

\* C10: the client skips certificate verification only when the block sets
\* skip_ssl_verify to true; with the attribute absent every request verifies.
SkipOnlyWhenTrue ==
    /\ (configured /\ providerData.set) =>
          (providerData.SkipSSLVerify <=> config.skip_ssl_verify = Known(TRUE))
    /\ \A i \in 1..Len(last.sent) :
          /\ last.sent[i].insecure <=> config.skip_ssl_verify = Known(TRUE)
          /\ IsNull(config.skip_ssl_verify) => ~last.sent[i].insecure

\* A request sent with skip_ssl_verify absent verified the certificate.
SkipOnlyWhenTrueWitness ==
    /\ last.sent # <<>> /\ IsNull(config.skip_ssl_verify)
    /\ ~last.sent[1].insecure

-------------------------------------------------------------------------------
(* Import and the state the handlers leave                                    *)

\* Two states of a repository block that differ at most in sample_data.
SameExceptSampleData(a, b) == [a EXCEPT !.sample_data = b.sample_data] = b

\* C11: for a repository the provider created and then read, ImportState with the
\* repository's id produces a state that equals the state Create followed by
\* Read left, on every attribute except sample_data.
ImportMatchesCreateRead ==
    [][(/\ last.op = "Read" /\ last.kind = "repository" /\ last.wrote /\ created # NoRequest
        /\ last'.op = "ImportStateVerify" /\ last'.wrote)
       => SameExceptSampleData(last'.state, tfstate)]_vars

\* A created repository was imported again: the imported state has the created
\* name and default branch, and differs from the state in sample_data only.
ImportMatchesCreateReadWitness ==
    /\ last.op = "ImportStateVerify" /\ last.wrote /\ created # NoRequest
    /\ last.importID = created.body.v.name
    /\ last.state.name = tfstate.name /\ last.state.default_branch = tfstate.default_branch
    /\ last.state.sample_data # tfstate.sample_data

\* The last handler call was a successful op on a block of the given kind.
Succeeded(op, kind) == last.op = op /\ last.kind = kind /\ last.wrote

\* resource.TestCheckResourceAttrSet: the attribute has a known value.
IsSet(a) == a.st = "known"

\* C12: after a successful repository Create the state's name is the configured
\* name, default_branch is the configured default branch (when one is
\* configured), creation_date is set, and id, repository and name all hold the
\* id the server returned.
RepositoryCreateState ==
    Succeeded("Create", "repository")
    => /\ tfstate = last.state
       /\ tfstate.name = last.plan.name
       /\ IsSet(last.plan.default_branch) => tfstate.default_branch = last.plan.default_branch
       /\ IsSet(tfstate.creation_date)
       /\ tfstate.id = Known(last.result.id)
       /\ tfstate.repository = tfstate.id
       /\ tfstate.name = tfstate.id

\* A repository was created from a plan that configures the default branch.
RepositoryCreateStateWitness ==
    /\ Succeeded("Create", "repository")
    /\ last.plan.default_branch = Known(MainBranch)
    /\ tfstate.name = Known(RepoName) /\ last.resp.status = 201

\* C13: after a successful branch Create the state's name is the configured
\* branch name, id is "<repository>/<name>", and commit_id is non-empty and is
\* the commit the server holds for the new branch: the value a Read that follows
\* takes from the branch's commit_id field.
BranchCreateState ==
    [][/\ (Succeeded("Create", "branch")' /\ last' # last)
          => /\ tfstate'.name = last'.plan.name
             /\ tfstate'.id = Known(Value(last'.plan.repository) \o <<"/">> \o Value(last'.plan.name))
             /\ Value(tfstate'.commit_id) # <<>>
             /\ tfstate'.commit_id = Known(CommitOf(server', Value(last'.plan.name)))
       /\ (Succeeded("Create", "branch") /\ Succeeded("Read", "branch")')
          => /\ tfstate'.commit_id = Known(last'.result.commit_id)
             /\ tfstate'.commit_id = tfstate.commit_id]_vars

\* A branch was created and then read: the Read found the commit Create stored.
BranchCreateStateWitness ==
    /\ Succeeded("Read", "branch") /\ created # NoRequest
    /\ last.prior.id = Known(RepoName \o <<"/">> \o BranchName)
    /\ last.prior.commit_id = Known(Commit0)
    /\ last.result.commit_id = Commit0

\* C14: after a successful tag Create the state's id is the tag name of the
\* configuration (the name sent to the server, nothing the server generated),
\* tag is that same name, and commit_id is the commit ID of the server's response.
TagCreateState ==
    Succeeded("Create", "tag")
    => /\ tfstate = last.state
       /\ tfstate.id = last.plan.id
       /\ Value(tfstate.id) = last.sent[1].body.v.id
       /\ tfstate.tag = tfstate.id
       /\ tfstate.commit_id = Known(last.result.commit_id)
       /\ last.result.commit_id # <<>>

\* A tag was created: the state names it as configured and holds the commit the
\* server answered with.
TagCreateStateWitness ==
    /\ Succeeded("Create", "tag") /\ last.resp.status = 201
    /\ tfstate.id = Known(TagName) /\ tfstate.commit_id = Known(Commit0)

\* C15: after a successful branch_protection Create, Read, Update or ImportState
\* the state's id equals its repository attribute, and after Create or Update the
\* repository and rules attributes in state equal the planned values.
BranchProtectionState ==
    /\ \A op \in {"Create", "Read", "Update", "ImportState"} :
          Succeeded(op, "branch_protection")
          => tfstate = last.state /\ IsSet(tfstate.id) /\ tfstate.id = tfstate.repository
    /\ \A op \in {"Create", "Update"} :
          Succeeded(op, "branch_protection")
          => tfstate.repository = last.plan.repository /\ tfstate.rules = last.plan.rules

\* Rules in state were replaced by an Update with a different plan.
BranchProtectionStateWitness ==
    /\ Succeeded("Update", "branch_protection")
    /\ last.prior.rules # last.plan.rules /\ last.plan.rules.elems # <<>>
    /\ tfstate.id = Known(RepoName)

\* C16: a successful Read of the branch data source leaves the configured
\* repository and branch attributes unchanged, sets id to
\* "<repository>/<branch>" and commit_id to the commit_id of the server's
\* response to GET /repositories/{repository}/branches/{branch}.
BranchDataState ==
    Succeeded("Read", "ds_branch")
    => /\ tfstate = last.state
       /\ tfstate.repository = last.plan.repository
       /\ tfstate.branch = last.plan.branch
       /\ tfstate.id = Known(Value(last.plan.repository) \o <<"/">> \o Value(last.plan.branch))
       /\ tfstate.commit_id = Known(last.result.commit_id)
       /\ last.resp.body = EntityObject(RefEntity(Value(last.plan.branch), last.result.commit_id))
       /\ last.sent[1].method = "GET"
       /\ last.sent[1].path = BranchPath(Value(last.plan.repository), Value(last.plan.branch))

\* The branch data source read the default branch of the repository.
BranchDataStateWitness ==
    /\ Succeeded("Read", "ds_branch")
    /\ tfstate.branch = Known(MainBranch) /\ tfstate.commit_id = Known(Commit0)

\* C17: a successful Read of the repository data source sets id,
\* storage_namespace, storage_id, default_branch, creation_date and read_only to
\* the values of the server's response to GET /repositories/{repository}; for a
\* repository with default branch "main" it reports default_branch "main" and a
\* non-empty storage_namespace.
RepositoryDataState ==
    Succeeded("Read", "ds_repository")
    => /\ tfstate = last.state
       /\ last.sent[1].method = "GET"
       /\ last.sent[1].path = RepositoryPath(Value(last.plan.repository))
       /\ last.resp.body.entity.type = "repository"
       /\ tfstate.id = Known(last.resp.body.entity.id)
       /\ tfstate.storage_namespace = Known(last.resp.body.entity.storage_namespace)
       /\ tfstate.storage_id = Known(last.resp.body.entity.storage_id)
       /\ tfstate.default_branch = Known(last.resp.body.entity.default_branch)
       /\ tfstate.creation_date = Known(last.resp.body.entity.creation_date)
       /\ tfstate.read_only = Known(last.resp.body.entity.read_only)
       /\ (server.repo.exists /\ server.repo.default_branch = MainBranch)
          => tfstate.default_branch = Known(MainBranch) /\ Value(tfstate.storage_namespace) # <<>>

\* The repository data source read a repository whose default branch is main.
RepositoryDataStateWitness ==
    /\ Succeeded("Read", "ds_repository")
    /\ server.repo.exists /\ server.repo.default_branch = MainBranch
    /\ tfstate.id = Known(RepoName) /\ tfstate.storage_namespace = Known(Namespace)

-------------------------------------------------------------------------------
(* The handlers the provider registers                                        *)

\* The type names of the registered resources and of the registered data sources.
ResourceTypeNames == {TypeName(k) : k \in ResourceKinds}
DataSourceTypeNames == {TypeName(k) : k \in DataSourceKinds}

\* C18: the provider registers exactly eight handlers, the resources
\* lakefs_repository, lakefs_branch, lakefs_tag and lakefs_branch_protection and
\* the data sources lakefs_repository, lakefs_branch, lakefs_commit and
\* lakefs_current_user, each with a type name of its own within its kind; every
\* block served is of one of them.
EightHandlers ==
    /\ Cardinality(ResourceKinds) = 4 /\ Cardinality(DataSourceKinds) = 4
    /\ ResourceKinds \cap DataSourceKinds = {}
    /\ \A k1, k2 \in ResourceKinds : TypeName(k1) = TypeName(k2) => k1 = k2
    /\ \A k1, k2 \in DataSourceKinds : TypeName(k1) = TypeName(k2) => k1 = k2
    /\ ResourceTypeNames = {<<"lakefs", "_repository">>, <<"lakefs", "_branch">>, <<"lakefs", "_tag">>,
                            <<"lakefs", "_branch_protection">>}
    /\ DataSourceTypeNames = {<<"lakefs", "_repository">>, <<"lakefs", "_branch">>, <<"lakefs", "_commit">>,
                              <<"lakefs", "_current_user">>}
    /\ block \in ResourceKinds \cup DataSourceKinds
    /\ last.kind # "none" => last.kind = block

\* A handler of a registered data source and type name has served its block.
EightHandlersWitness ==
    /\ Succeeded("Read", "ds_current_user")
    /\ block \in DataSourceKinds /\ TypeName(block) = <<"lakefs", "_current_user">>

\* C19: the provider offers the resources lakefs_user, lakefs_group,
\* lakefs_policy, lakefs_group_membership, lakefs_group_policy_attachment and
\* lakefs_user_policy_attachment and the data sources lakefs_user and
\* lakefs_group, besides the repository, branch, tag and branch_protection
\* resources; the block served is of an offered type.
EnterpriseHandlersOffered ==
    /\ TypeName(block) \in ResourceTypeNames \cup DataSourceTypeNames
    /\ {<<"lakefs", "_repository">>, <<"lakefs", "_branch">>, <<"lakefs", "_tag">>,
         <<"lakefs", "_branch_protection">>} \subseteq ResourceTypeNames
    /\ {<<"lakefs", "_user">>, <<"lakefs", "_group">>, <<"lakefs", "_policy">>,
         <<"lakefs", "_group_membership">>, <<"lakefs", "_group_policy_attachment">>,
         <<"lakefs", "_user_policy_attachment">>} \subseteq ResourceTypeNames
    /\ {<<"lakefs", "_user">>, <<"lakefs", "_group">>} \subseteq DataSourceTypeNames

-------------------------------------------------------------------------------
(* Import IDs of branches and tags                                            *)

\* The ID holds a "/", and the position of its first one.
HasSlash(id) == \E i \in 1..Len(id) : id[i] = "/"
FirstSlash(id) == CHOOSE i \in 1..Len(id) : id[i] = "/" /\ \A j \in 1..(i - 1) : id[j] # "/"
BeforeSlash(id) == SubSeq(id, 1, FirstSlash(id) - 1)
AfterSlash(id) == SubSeq(id, FirstSlash(id) + 1, Len(id))

\* C20: ImportState of a branch or a tag accepts an import ID only in the form
\* "repository/name", split at its first "/" (the name may hold more "/"); an
\* ID with no "/" is rejected with an "Invalid Import ID" error, no request is
\* sent and no state is written.
ImportIDForm ==
    (last.op = "ImportState" /\ last.kind \in {"branch", "tag"})
    => IF HasSlash(last.importID)
       THEN /\ Len(last.sent) = 1 /\ last.sent[1].method = "GET"
            /\ last.sent[1].path = IF last.kind = "branch"
                                   THEN BranchPath(BeforeSlash(last.importID), AfterSlash(last.importID))
                                   ELSE TagPath(BeforeSlash(last.importID), AfterSlash(last.importID))
            /\ \A i \in 1..Len(last.diags) : last.diags[i].summary # "Invalid Import ID"
            /\ last.wrote => /\ tfstate.repository = Known(BeforeSlash(last.importID))
                             /\ tfstate.id = Known(IF last.kind = "branch" THEN last.importID
                                                    ELSE AfterSlash(last.importID))
       ELSE /\ Len(last.diags) = 1 /\ last.diags[1].summary = "Invalid Import ID"
            /\ last.sent = <<>>
            /\ ~last.wrote /\ tfstate = NoState /\ last.state = NoState

\* An ID with no "/" was rejected, with no request and no state.
ImportIDFormWitness ==
    /\ last.op = "ImportState" /\ last.kind = "tag" /\ last.importID = RepoName
    /\ last.diags # <<>> /\ last.sent = <<>> /\ tfstate = NoState

-------------------------------------------------------------------------------
(* Branch protection rules on the wire                                        *)

\* C21: Delete of a branch_protection resource sends one PUT to
\* /repositories/{repository}/settings/branch_protection whose body is the
\* empty JSON array; when the server accepts it the repository holds no branch
\* protection rule, whatever rules it held before.
DeleteClearsRules ==
    (last.op = "Delete" /\ last.kind = "branch_protection")
    => /\ Len(last.sent) = 1
       /\ last.sent[1].method = "PUT"
       /\ last.sent[1].path = BranchProtectionPath(Value(last.prior.repository))
       /\ last.sent[1].body.form = "array" /\ last.sent[1].body.v.rules = <<>>
       /\ last.err.kind = "nil" => server.rules = <<>> /\ tfstate = NoState

\* Rules that were in state, and on the server, are gone after Delete.
DeleteClearsRulesWitness ==
    /\ last.op = "Delete" /\ last.kind = "branch_protection" /\ last.err.kind = "nil"
    /\ last.resp.status = 204 /\ last.prior.rules.elems # <<>>
    /\ server.repo.exists /\ server.rules = <<>>

\* C22: for every rules list in the plan, the empty list included,
\* branch_protection Create and Update send a PUT whose body is a JSON array
\* with one {"pattern": p} object per planned rule, in plan order, none added,
\* dropped or duplicated.
PutBodyIsPlannedArray ==
    (last.op \in {"Create", "Update"} /\ last.kind = "branch_protection")
    => /\ Len(last.sent) = 1
       /\ last.sent[1].method = "PUT"
       /\ last.sent[1].body.form = "array"
       /\ last.sent[1].body.v.rules = last.plan.rules.elems

\* The rules of an answer: those of the array, none for null or no body.
AnswerRules(body) == IF body.form = "array" THEN body.entity.rules ELSE <<>>

-------------------------------------------------------------------------------
(* Drift, updates and failures                                                *)

\* C24: for each resource, a Read that directly follows a successful Create
\* leaves the state exactly as Create wrote it, and a Read that directly follows
\* a successful Read leaves it as that Read did.
NoDriftAfterCreate ==
    [][\A k \in ResourceKinds :
          /\ (Succeeded("Create", k) /\ Succeeded("Read", k)') => tfstate' = tfstate
          /\ (Succeeded("Read", k) /\ Succeeded("Read", k)') => tfstate' = tfstate]_vars

\* A Read found what the Create before it had written; here of rules.
NoDriftAfterCreateWitness ==
    /\ Succeeded("Read", "branch_protection") /\ created # NoRequest
    /\ last.prior = tfstate /\ tfstate.rules.elems # <<>>
    /\ last.resp.status = 200

\* C25: Update of a repository, a branch or a tag sends no HTTP request and
\* leaves the server unchanged; it writes the planned values to the state, so
\* that the state equals the plan whether or not the server's entity matches it.
UpdateOnlyWritesPlan ==
    [][\A k \in {"repository", "branch", "tag"} :
          (last' # last /\ last'.op = "Update" /\ last'.kind = k)
          => /\ last'.sent = <<>>
             /\ server' = server
             /\ last'.diags = <<>> /\ last'.wrote
             /\ tfstate' = last'.plan]_vars

\* A branch was updated with no request; its state holds the plan, commit_id
\* still unknown, while the server holds the branch's commit.
UpdateOnlyWritesPlanWitness ==
    /\ last.op = "Update" /\ last.kind = "branch" /\ last.sent = <<>>
    /\ tfstate = last.plan /\ IsUnknown(tfstate.commit_id)
    /\ HasRef(server, BranchName)

\* The last call was answered with status 404.
NotFoundResponse == Answered1 /\ last.resp.status = 404

\* C26: an operation whose HTTP request fails never writes state: a failed Create
\* or ImportState leaves the resource absent from the state, a Read that fails
\* with an error other than not-found leaves the prior state unchanged, and a
\* Delete that fails with an error other than not-found reports an error and
\* the resource stays in state.
FailedRequestKeepsState ==
    (last.kind \in ResourceKinds /\ last.sent # <<>> /\ last.err.kind # "nil")
    => /\ ~last.wrote
       /\ last.op \in {"Create", "ImportState"} => tfstate = NoState
       /\ (last.op = "Read" /\ ~NotFoundResponse) => (~last.removed /\ tfstate = last.prior)
       /\ (last.op = "Delete" /\ ~NotFoundResponse) => (last.diags # <<>> /\ tfstate = last.prior)

\* C27: IsNotFound(err) is true only for an error that Request or PostRaw made
\* of a response whose HTTP status was 404: no response with another status,
\* whatever its body, and no transport error counts as not-found, so that Read
\* drops a resource from the state only on a 404.
NotFoundOnlyFor404 ==
    /\ IsNotFound(last.err) => NotFoundResponse
    /\ (last.op = "Read" /\ last.removed) => NotFoundResponse

\* A step that is a Create of a repository, a branch or a tag ending with an
\* error diagnostic.
CreateFailing ==
    /\ last' # last /\ last'.op = "Create" /\ last'.kind \in {"repository", "branch", "tag"}
    /\ last'.diags # <<>>

DataSourceErrorReported ==
    (last.op = "Read" /\ last.kind \in DataSourceKinds /\ last.err.kind # "nil")
    => /\ Len(last.diags) = 1 /\ last.diags[1].summary = "Client Error"
       /\ ~last.wrote /\ ~last.removed
       /\ tfstate = last.prior

\* A data source read was answered with 404 by a server that holds no
\* repository, and reported it.
DataSourceErrorReportedWitness ==
    /\ last.op = "Read" /\ last.kind = "ds_branch" /\ NotFoundResponse /\ IsNotFound(last.err)
    /\ ~server.repo.exists
    /\ last.diags # <<>> /\ tfstate = NoState

====
